---- MODULE Spec2Model ----
(***************************************************************************)
(* Entity resolution and incremental construction of the Five-Dynasties    *)
(* knowledge graph: GraphCRUD (src/graph/crud.py), the Person / Relation    *)
(* models (src/models/entities.py) and the ingestion pipeline              *)
(* (src/ingestion/pipeline.py).                                            *)
(*                                                                         *)
(* Names are opaque strings.  The Chinese names of the source are written  *)
(* in pinyin, one capitalised syllable per character, except that a        *)
(* one-character name is written as one letter so that len(n) == 1 of the  *)
(* source is Len(n) = 1 here.  The role default "其他" is written "QiTa".   *)
(* An Optional[...] field is the empty tuple << >> for None and <<v>> for  *)
(* the value v.  The alias list of a node is modelled as the set of its    *)
(* elements.                                                               *)
(***************************************************************************)
EXTENDS Integers, Sequences, FiniteSets, TLC

VARIABLES
    persons,    \* Person nodes of the graph store: uid -> node properties
    others,     \* Dynasty / Event / Place nodes: <<label, uid>> -> properties
    edges,      \* typed edges: <<source node, target node, type>> -> properties
    last,       \* the last GraphCRUD call: its name, argument, result and path
    before,     \* the store as it was when the last GraphCRUD call started
    ncalls,     \* number of GraphCRUD calls performed so far
    pc,         \* position of IngestionPipeline.run
    run,        \* arguments and bookkeeping of the current run
    chunks,     \* the chunk ids the current run iterates over
    processed_chunks,   \* IngestionPipeline._processed_chunks
    progress_file,      \* contents of progress.json
    results_file,       \* extraction_results.json: the units whose results it holds
    extractor,  \* KnowledgeExtractor: _known_persons_cache, _cache_refresh_counter
    hist,       \* history: what has been done to units, and the faults so far
    workers,    \* concurrent merge_person calls: position and lookup result
    llm,        \* VenusLLM.chat / extract_from_chunk: attempts, waits, outcome
    repair,     \* position of run_phase2_event_relations
    cleanup,    \* run_phase1_alias_cleanup: position, rows, done uids, answers
    ctxlog      \* the calls of _build_existing_context: the last one and the reuses

storeVars == <<persons, others, edges>>

callVars == <<last, before, ncalls>>

pipeVars == <<pc, run, chunks, processed_chunks, progress_file, results_file,
              extractor, hist>>

sideVars == <<workers, llm, repair, cleanup, ctxlog>>

vars == <<persons, others, edges, last, before, ncalls,
          pc, run, chunks, processed_chunks, progress_file, results_file,
          extractor, hist,
          workers, llm, repair, cleanup, ctxlog>>

-----------------------------------------------------------------------------
(* Bounds *)

MaxCalls == 3

\* runs of the pipeline in one behaviour
MaxRuns == 2

\* chunks in chunks.json
NumUnits == 11

\* crashes, failed file writes and failed cache reloads in one behaviour
MaxFaults == 1

\* extraction calls in one behaviour of the LLM client
MaxExtractions == 2

-----------------------------------------------------------------------------
(* Program constants *)

\* crud.py:153  if len(new_aliases) > 25
MaxAliases == 25

\* crud.py:23-41
AMBIGUOUS_TITLES ==
    { "TaiZong", "TaiZu", "ShiZong", "GaoZu", "ZhongZong", "MingZong", "MuZong",
      "ZhuangZong", "WenZong", "WuZong", "XuanZong", "AiDi", "FeiDi", "ShaoDi",
      "MoDi",
      "HuangDi", "TianZi", "XinTianZi", "DaSongTianZi", "DaZhouHuangDi",
      "HuangTaiZi", "TaiZi", "HuangTaiDi", "JinWang", "QinWang", "QiWang",
      "ZhaoWang", "WeiWang", "ChuWang", "WuWang", "ShuWang", "LiangWang",
      "YanWang", "HanWang", "ZhouWang", "SongWang", "LuWang",
      "HuangHou", "TaiHou", "TaiFei", "GuiFei", "ShuFei", "XianFei",
      "ShiZi", "ZhangZi", "CiZi", "SanZi", "LaoDa", "LaoEr", "LaoSan", "LaoSi",
      "XianWang", "XianDi",
      "ZaiXiang", "ShuMiShi", "JieDuShi", "CiShi", "ShiZhong",
      "TangZhu", "LiangZhu", "JinZhu", "HanZhu", "ZhouZhu", "ShuZhu",
      "QiDanZhu", "LiaoZhu", "WuZhu",
      "LingRen", "YouLing", "LingLun", "ZhuChiHeShang", "FaShi" }

\* extractor.py:153  self._cache_refresh_counter < 20
CacheLimit == 20

\* extractor.py:168  self._known_persons_cache[:200]
ContextLimit == 200

\* pipeline.py:191  if (i + 1) % 10 == 0
SaveEvery == 10

\* llm_client.py:36  retry: int = 3
retry == 3

\* entities.py:41  role default
DefaultRole == "QiTa"

None == << >>

Some(v) == <<v>>

\* Python truthiness of an Optional[int] value and of an Optional[str] value
Truthy(opt) == opt # None /\ opt[1] # 0

TruthyStr(opt) == opt # None /\ opt[1] # ""

-----------------------------------------------------------------------------
(* Person model, src/models/entities.py *)

\* Person.all_names
all_names(person) == ({person.original_name} \cup person.aliases) \ {""}

\* Person.neo4j_properties followed by  MERGE (p:Person {uid}) SET p += props :
\* the properties of node uid after the write.  A None year / cause is not in
\* props, so an existing node keeps its old value.
SetProps(store, person) ==
    LET old == IF person.uid \in DOMAIN store THEN store[person.uid]
               ELSE [birth_year |-> None, death_year |-> None, death_cause |-> None]
    IN  [ original_name |-> person.original_name,
          aliases       |-> person.aliases,
          role          |-> person.role,
          loyalty       |-> person.loyalty,
          description   |-> person.description,
          birth_year    |-> IF person.birth_year # None THEN person.birth_year
                            ELSE old.birth_year,
          death_year    |-> IF person.death_year # None THEN person.death_year
                            ELSE old.death_year,
          death_cause   |-> IF person.death_cause # None THEN person.death_cause
                            ELSE old.death_cause ]

\* MERGE (p:Person {uid: $uid}) SET p += $props
upsert_person(store, person) ==
    [u \in DOMAIN store \cup {person.uid} |->
        IF u = person.uid THEN SetProps(store, person) ELSE store[u]]

-----------------------------------------------------------------------------
(* Name matching, src/graph/crud.py *)

\* a filter that lets no name through
_filter_ambiguous_names_all(names) == {}

\* GraphCRUD._filter_ambiguous_names
_filter_ambiguous_names(names) ==
    {n \in names : n # "" /\ n \notin AMBIGUOUS_TITLES /\ Len(n) # 1}

\* a canonical-name query that finds nothing
no_exact_matches(store, names) == {}

\* MATCH (p:Person) WHERE p.original_name IN $names
ExactMatches(store, names) ==
    {u \in DOMAIN store : store[u].original_name \in names}

\* MATCH (p:Person) WHERE any(alias IN p.aliases WHERE alias IN $names)
AliasMatches(store, names) ==
    {u \in DOMAIN store : store[u].aliases \cap names # {}}

\* find_person_by_any_name without the exact canonical-name query
find_person_alias_only(store, names) ==
    LET specific_names == _filter_ambiguous_names(names)
    IN  IF specific_names = {} THEN {}
        ELSE AliasMatches(store, specific_names)

\* GraphCRUD.find_person_by_any_name (use_filter = True): the uids the query
\* may return; LIMIT 1 returns any one of them, the empty set stands for None.
find_person_by_any_name(store, names) ==
    LET specific_names == _filter_ambiguous_names(names)
    IN  IF names = {} THEN {}
        ELSE IF specific_names = {} THEN {}
        ELSE IF ExactMatches(store, specific_names) # {}
             THEN ExactMatches(store, specific_names)
        ELSE AliasMatches(store, specific_names)

\* list(dict.fromkeys(xs)): drop repeated elements, keep first occurrences
RECURSIVE Dedup(_)
Dedup(xs) ==
    IF xs = << >> THEN << >>
    ELSE LET front == Dedup(SubSeq(xs, 1, Len(xs) - 1))
             x     == xs[Len(xs)]
         IN  IF \E i \in 1..Len(front) : front[i] = x THEN front
             ELSE Append(front, x)

\* crud.py:142-150  the proposed alias set of a merge
new_aliases(existing, person) ==
    ((existing.aliases \cup {existing.original_name}) \cup all_names(person))
        \ {existing.original_name, ""}

\* a choice that takes the candidate's description when the lengths are equal
final_desc_new_on_tie(existing_desc, new_desc) ==
    IF Len(new_desc) >= Len(existing_desc) THEN new_desc ELSE existing_desc

\* crud.py:177-179  the description a merge stores
final_desc(existing_desc, new_desc) ==
    IF Len(new_desc) > Len(existing_desc) THEN new_desc ELSE existing_desc

\* crud.py:172-209  the node after the update statement of a merge
MergedNode(existing, person) ==
    [ original_name |-> existing.original_name,
      aliases       |-> new_aliases(existing, person),
      loyalty       |-> Dedup(existing.loyalty \o person.loyalty),
      description   |-> final_desc(existing.description, person.description),
      birth_year    |-> IF Truthy(person.birth_year) /\ ~Truthy(existing.birth_year)
                        THEN person.birth_year ELSE existing.birth_year,
      death_year    |-> IF Truthy(person.death_year) /\ ~Truthy(existing.death_year)
                        THEN person.death_year ELSE existing.death_year,
      death_cause   |-> IF TruthyStr(person.death_cause)
                           /\ ~TruthyStr(existing.death_cause)
                        THEN person.death_cause ELSE existing.death_cause,
      role          |-> IF person.role # "" /\ person.role # DefaultRole
                           /\ existing.role \in {DefaultRole, ""}
                        THEN person.role ELSE existing.role ]

\* crud.py:153  the pollution guard
GuardTrips(existing, person) ==
    Cardinality(new_aliases(existing, person)) > MaxAliases

\* GraphCRUD.merge_person on the Person nodes ps: the possible outcomes (the
\* Person nodes after the call, the returned uid, the branch taken and the node
\* the lookup returned).  LIMIT 1 leaves the choice among several matches open.
merge_person(ps, person) ==
    LET found == find_person_by_any_name(ps, all_names(person))
        created(path, m) == [persons |-> upsert_person(ps, person),
                             ret |-> person.uid, path |-> path, matched |-> m]
    IN  IF found # {}
        THEN { IF GuardTrips(ps[existing_uid], person)
               THEN created("guard", Some(existing_uid))
               ELSE [persons |-> [ps EXCEPT ![existing_uid] =
                                     MergedNode(ps[existing_uid], person)],
                     ret |-> existing_uid, path |-> "merge",
                     matched |-> Some(existing_uid)]
               : existing_uid \in found }
        ELSE { created("create", None) }

-----------------------------------------------------------------------------
(* Other nodes and relations, src/graph/crud.py *)

\* upsert_dynasty / upsert_event / upsert_place:  MERGE (n:Label {uid}) SET n += props.
\* Of the descriptive properties only the name takes part in name resolution.
upsert_other(os, label, node) ==
    [k \in DOMAIN os \cup {<<label, node.uid>>} |->
        IF k = <<label, node.uid>> THEN [name |-> node.name] ELSE os[k]]

\* MATCH (p:Person) WHERE p.original_name = $name OR $name IN p.aliases
PersonsNamed(ps, name) ==
    {u \in DOMAIN ps : ps[u].original_name = name \/ name \in ps[u].aliases}

\* MATCH (n:Label) WHERE n.name = $name
OthersNamed(os, label, name) ==
    {k[2] : k \in {j \in DOMAIN os : j[1] = label /\ os[j].name = name}}

\* GraphCRUD.resolve_person_uid: the uids the query may return ({} for None)
resolve_person_uid(ps, name) ==
    IF name = "" THEN {} ELSE PersonsNamed(ps, name)

\* a lookup that consults the events before the persons and the dynasties
resolve_node_uid_event_first(ps, os, name) ==
    IF name = "" THEN {}
    ELSE IF OthersNamed(os, "Event", name) # {} THEN OthersNamed(os, "Event", name)
    ELSE IF PersonsNamed(ps, name) # {} THEN PersonsNamed(ps, name)
    ELSE IF OthersNamed(os, "Dynasty", name) # {} THEN OthersNamed(os, "Dynasty", name)
    ELSE OthersNamed(os, "Place", name)

\* GraphCRUD.resolve_node_uid: the uids the lookup may return ({} for None)
resolve_node_uid(ps, os, name) ==
    IF name = "" THEN {}
    ELSE IF PersonsNamed(ps, name) # {} THEN PersonsNamed(ps, name)
    ELSE IF OthersNamed(os, "Dynasty", name) # {} THEN OthersNamed(os, "Dynasty", name)
    ELSE IF OthersNamed(os, "Event", name) # {} THEN OthersNamed(os, "Event", name)
    ELSE OthersNamed(os, "Place", name)

\* A relation type is a sequence of characters.  str.upper()
Upper(c) ==
    CASE c = "a" -> "A" [] c = "b" -> "B" [] c = "k" -> "K" [] OTHER -> c

\* str.isdigit() on one character of the alphabet used here
IsDigit(c) == c \in {"1", "2"}

\* str.isalnum() on one character of the alphabet used here; "Han" stands
\* for a Chinese character, which Python counts as alphanumeric
IsAlnum(c) == c \in {"a", "b", "k", "A", "B", "K", "1", "2", "Han"}

\* a cleaning that upper-cases the type and leaves every character in place
SanitizeRelType_upper_only(relation_type) ==
    [i \in 1..Len(relation_type) |-> Upper(relation_type[i])]

\* crud.py:350-354
SanitizeRelType(relation_type) ==
    LET up   == [i \in 1..Len(relation_type) |-> Upper(relation_type[i])]
        repl == [i \in 1..Len(up) |-> IF up[i] \in {" ", "-"} THEN "_" ELSE up[i]]
        safe == [i \in 1..Len(repl) |->
                    IF IsAlnum(repl[i]) \/ repl[i] = "_" THEN repl[i] ELSE "_"]
    IN  IF safe = << >> THEN <<"R","E","L","A","T","E","D","_","T","O">> ELSE safe

\* MATCH (n {uid: $uid}): every node with that uid, whatever its label
NodesWithUid(ps, os, uid) ==
    {<<"Person", u>> : u \in {x \in DOMAIN ps : x = uid}}
        \cup {k \in DOMAIN os : k[2] = uid}

NoEdgeProps == [description |-> None, year |-> None, role |-> None]

\* a MERGE that creates an edge only from a node without outgoing edges
merge_edges_first_only(es, keys, props) ==
    LET fresh == {k \in keys : \A e \in DOMAIN es : e[1] # k[1]}
    IN  [k \in DOMAIN es \cup fresh |->
            IF k \in DOMAIN es THEN es[k]
            ELSE [description |-> props.description, year |-> props.year,
                  role |-> props.role]]

\* MERGE (a)-[r:TYPE]->(b) SET r += $props  for every pair in keys.
\* props holds None for a property that is not in the map.
merge_edges(es, keys, props) ==
    [k \in DOMAIN es \cup keys |->
        IF k \in keys
        THEN LET old == IF k \in DOMAIN es THEN es[k] ELSE NoEdgeProps
             IN  [ description |-> IF props.description # None
                                   THEN props.description ELSE old.description,
                   year        |-> IF props.year # None THEN props.year ELSE old.year,
                   role        |-> IF props.role # None THEN props.role ELSE old.role ]
        ELSE es[k]]

\* Relation.neo4j_properties
relation_properties(relation) ==
    [description |-> Some(relation.description), year |-> relation.year,
     role |-> None]

\* What a LIMIT 1 query over the matches may return: None, or any one match
FirstRow(matches) ==
    IF matches = {} THEN {None} ELSE {Some(uid) : uid \in matches}

\* create_relation_by_name that checks the source endpoint only and creates
\* the edge towards the target uid it was given by the extraction
create_relation_unchecked_target(ps, os, es, relation) ==
    LET sources == resolve_node_uid(ps, os, relation.source)
        rel_type == SanitizeRelType(relation.relation_type)
    IN  IF sources = {}
        THEN { [edges |-> es, ret |-> FALSE, label |-> None,
                resolved |-> [source |-> None, target |-> Some(relation.target)]] }
        ELSE { [edges |-> merge_edges(es,
                            { <<a, <<"Person", relation.target>>, rel_type>> :
                                a \in NodesWithUid(ps, os, source_uid) },
                            relation_properties(relation)),
                ret |-> TRUE, label |-> Some(rel_type),
                resolved |-> [source |-> Some(source_uid),
                              target |-> Some(relation.target)]]
               : source_uid \in sources }

\* crud.py:356-371  the statement is built by pasting the label into the text
\* unquoted; Cypher rejects a relationship type that is empty or starts with
\* a digit, run_write raises and the handler returns False
CypherAccepts(rel_type) == rel_type # << >> /\ ~IsDigit(rel_type[1])

\* GraphCRUD.create_relation_by_name: the possible outcomes (edges after the
\* call, the returned flag, what the two lookups returned and the label)
create_relation_by_name(ps, os, es, relation) ==
    LET sources == resolve_node_uid(ps, os, relation.source)
        targets == resolve_node_uid(ps, os, relation.target)
        rel_type == SanitizeRelType(relation.relation_type)
    IN  IF sources = {} \/ targets = {}
        THEN { [edges |-> es, ret |-> FALSE, label |-> None,
                resolved |-> [source |-> s, target |-> t]]
               : s \in FirstRow(sources), t \in FirstRow(targets) }
        ELSE { [edges |-> IF CypherAccepts(rel_type)
                          THEN merge_edges(es,
                                  { <<a, b, rel_type>> :
                                      a \in NodesWithUid(ps, os, source_uid),
                                      b \in NodesWithUid(ps, os, target_uid) },
                                  relation_properties(relation))
                          ELSE es,
                ret |-> CypherAccepts(rel_type), label |-> Some(rel_type),
                resolved |-> [source |-> Some(source_uid),
                              target |-> Some(target_uid)]]
               : source_uid \in sources, target_uid \in targets }

\* GraphCRUD.link_event_participant (role = "CanYuZhe", the default "参与者")
link_event_participant(ps, os, es, event_uid, person_name) ==
    LET byName == resolve_person_uid(ps, person_name)
        uids   == IF byName # {} THEN byName
                  ELSE {u \in DOMAIN ps : u = person_name}
    IN  IF uids = {} THEN {es}
        ELSE { merge_edges(es,
                  { <<<<"Person", person_uid>>, k, <<"PARTICIPATED_IN">>>> :
                      k \in {j \in DOMAIN os : j = <<"Event", event_uid>>} },
                  [description |-> None, year |-> None, role |-> Some("CanYuZhe")])
               : person_uid \in uids }

-----------------------------------------------------------------------------
(* GraphCRUD calls as steps *)

Snapshot == [persons |-> persons, others |-> others, edges |-> edges]

\* A call of GraphCRUD.merge_person
MergePersonCall(person) ==
    /\ ncalls < MaxCalls
    /\ \E o \in merge_person(persons, person) :
          /\ persons' = o.persons
          /\ last' = [op |-> "merge_person", arg |-> person, ret |-> o.ret,
                      path |-> o.path, matched |-> o.matched]
    /\ before' = Snapshot
    /\ ncalls' = ncalls + 1
    /\ UNCHANGED <<others, edges>>
    /\ UNCHANGED pipeVars
    /\ UNCHANGED sideVars

\* A call of GraphCRUD.upsert_dynasty, upsert_event or upsert_place
UpsertOtherCall(label, node) ==
    /\ ncalls < MaxCalls
    /\ others' = upsert_other(others, label, node)
    /\ last' = [op |-> "upsert_other", arg |-> node, ret |-> node.uid,
                path |-> label, matched |-> None]
    /\ before' = Snapshot
    /\ ncalls' = ncalls + 1
    /\ UNCHANGED <<persons, edges>>
    /\ UNCHANGED pipeVars
    /\ UNCHANGED sideVars

\* A call of GraphCRUD.create_relation_by_name
CreateRelationCall(relation) ==
    /\ ncalls < MaxCalls
    /\ \E o \in create_relation_by_name(persons, others, edges, relation) :
          /\ edges' = o.edges
          /\ last' = [op |-> "create_relation_by_name", arg |-> relation,
                      ret |-> o.ret, path |-> o.label, matched |-> o.resolved]
    /\ before' = Snapshot
    /\ ncalls' = ncalls + 1
    /\ UNCHANGED <<persons, others>>
    /\ UNCHANGED pipeVars
    /\ UNCHANGED sideVars

-----------------------------------------------------------------------------
(* Inputs of the identity resolver *)

UIDs == {"person_a", "person_b"}

Filler(lo, hi) == {"f" \o ToString(i) : i \in lo..hi}

AliasChoices ==
    { {},
      {"TaiZong"},
      {"ZhuQuanzhong", "ZhuHuang"},
      {"", "ZhuWen"},
      Filler(1, 13),
      Filler(14, 25),
      Filler(14, 25) \cup {"TaiZong"},
      Filler(1, 25) \cup {"B"} }

PersonNames == {"ZhuWen", "LiKeyong", "TaiZong"}

PlainPerson(u, n, a) ==
    [ uid |-> u, original_name |-> n, aliases |-> a, role |-> DefaultRole,
      loyalty |-> << >>, birth_year |-> None, death_year |-> None,
      death_cause |-> None, description |-> "" ]

PersonInputs ==
    { PlainPerson(u, n, a) : u \in UIDs, n \in PersonNames, a \in AliasChoices }

NoOp == [op |-> "none", arg |-> << >>, ret |-> "", path |-> "", matched |-> None]

EmptyStore == [persons |-> << >>, others |-> << >>, edges |-> << >>]

NoFile == [state |-> "absent", ids |-> {}]

NoRun == [n |-> 0, clear_db |-> FALSE, resume |-> FALSE, corpus |-> << >>,
          i |-> 0, result |-> None, extracted |-> {}, written |-> {},
          failed |-> {}, failed_before |-> {}, context |-> {},
          written_names |-> {}, attempted |-> {}, failed_writes |-> {},
          read_failed |-> FALSE, io_failed |-> "none", at_failure |-> << >>,
          file_at_start |-> NoFile, store_at_start |-> EmptyStore,
          start_from |-> 0, max_chunks |-> None, processed_at_start |-> {}]

\* extractor.py:144-146
NoExtractor == [cache |-> None, counter |-> 0]

NoHist == [returned |-> {}, applied |-> {}, failed |-> {}, faults |-> 0,
           succeeded |-> {}, save_failed |-> FALSE, cleared |-> FALSE]

\* No extraction call made yet: the attempts of the current call and their
\* outcomes, the sleeps between them, and what each call returned
NoLLM == [status |-> "idle", attempt |-> 0, attempts |-> << >>,
          slept |-> << >>, results |-> << >>]

\* llm_batch_cleanup.py:155-159, 240-247  no alias cleanup pass started;
\* phase1_done is the list of that name in cleanup_progress.json
NoCleanup == [pos |-> "idle", min_aliases |-> 0, skip_fixed |-> TRUE,
              rows |-> << >>, remaining |-> {}, done_uids |-> {},
              answers |-> << >>, phase1_done |-> {},
              done_at_start |-> {}, persons_at_start |-> << >>,
              oracle |-> None, pass |-> 0]

\* extractor.py:144-146  no call of _build_existing_context made yet: the
\* kind of the last call, the consecutive calls answered from the cache up
\* to and before it, and the names its context listed
NoContextLog == [call |-> "none", reuses |-> 0, reuses_before |-> 0,
                 context |-> {}]

\* Everything outside the graph store and the GraphCRUD call history
IdleRest ==
    /\ pc = "idle"
    /\ run = NoRun
    /\ chunks = << >>
    /\ processed_chunks = {}
    /\ extractor = NoExtractor
    /\ hist = NoHist
    /\ workers = << >>
    /\ llm = NoLLM
    /\ repair = "idle"
    /\ cleanup = NoCleanup
    /\ ctxlog = NoContextLog

Init ==
    /\ persons = << >>
    /\ others = << >>
    /\ edges = << >>
    /\ last = NoOp
    /\ before = EmptyStore
    /\ ncalls = 0
    /\ IdleRest
    /\ progress_file = NoFile
    /\ results_file = NoFile

MergeStep == \E person \in PersonInputs : MergePersonCall(person)

Next == MergeStep

Spec == Init /\ [][Next]_vars

-----------------------------------------------------------------------------
(* The identity resolver on candidates that differ in their scalar fields *)

ScalarProfiles ==
    { [role |-> DefaultRole, loyalty |-> << >>, birth_year |-> None,
       death_year |-> None, death_cause |-> None, description |-> ""],
      [role |-> "HuangDi", loyalty |-> <<"Tang", "HouLiang">>,
       birth_year |-> Some(852), death_year |-> Some(912),
       death_cause |-> Some("BeiSha"), description |-> "founder"],
      [role |-> "JiangLing", loyalty |-> <<"HouLiang", "Jin">>,
       birth_year |-> Some(856), death_year |-> Some(908),
       death_cause |-> Some("BingSi"), description |-> "general"],
      [role |-> "", loyalty |-> <<"Jin">>, birth_year |-> Some(0),
       death_year |-> None, death_cause |-> Some(""),
       description |-> "emperor of Liang"] }

ScalarNames == {"ZhuWen", "TaiZong"}

ScalarInputs ==
    { [ uid |-> u, original_name |-> n, aliases |-> {}, role |-> f.role,
        loyalty |-> f.loyalty, birth_year |-> f.birth_year,
        death_year |-> f.death_year, death_cause |-> f.death_cause,
        description |-> f.description ] :
        u \in UIDs, n \in ScalarNames, f \in ScalarProfiles }

ScalarMergeStep == \E person \in ScalarInputs : MergePersonCall(person)

NextScalar == ScalarMergeStep

SpecScalar == Init /\ [][NextScalar]_vars

-----------------------------------------------------------------------------
(* The relation resolver *)

RelPersonInputs ==
    { PlainPerson("person_a", "LiKeyong", {"JinWang"}),
      PlainPerson("person_b", "LiSiyuan", {"MiaoJiLie"}),
      PlainPerson("person_b", "LiKeyong", {}),
      PlainPerson("person_c", "LiCunXu", {"HouTang"}) }

OtherLabels == {"Dynasty", "Event", "Place"}

OtherInputs ==
    { [uid |-> u, name |-> n] : u \in {"node_x", "person_a"},
                                n \in {"HouTang"} }

RelationNames == {"LiKeyong", "MiaoJiLie", "HouTang", ""}

RelationTypes ==
    { <<"a", "b">>, <<"a", " ", "B">>, << >>, <<"1", "!", "-">>, <<"!", "Han">> }

RelationInputs ==
    { [source |-> src, target |-> tgt, relation_type |-> t, year |-> f.year,
       description |-> f.description] :
        src \in RelationNames, tgt \in RelationNames, t \in RelationTypes,
        f \in { [year |-> None, description |-> ""],
                [year |-> Some(907), description |-> "yi zi"] } }

RelMergeStep == \E person \in RelPersonInputs : MergePersonCall(person)

UpsertOtherStep ==
    \E label \in OtherLabels, node \in OtherInputs : UpsertOtherCall(label, node)

CreateRelationStep ==
    \E relation \in RelationInputs : CreateRelationCall(relation)

NextRel == RelMergeStep \/ UpsertOtherStep \/ CreateRelationStep

SpecRel == Init /\ [][NextRel]_vars

-----------------------------------------------------------------------------
(* The ingestion pipeline, src/ingestion/pipeline.py *)

\* text_processor.py:265  chunk_id of the i-th chunk
ChunkId(i) == "chunk_" \o ToString(i)

\* the chunks of chunks.json, in order
UnitIds == [i \in 1..NumUnits |-> ChunkId(i)]

UnitIndex(chunk) == CHOOSE i \in 1..NumUnits : UnitIds[i] = chunk

NoEntities == [dynasties |-> << >>, places |-> << >>, persons |-> << >>,
               events |-> << >>, relations |-> << >>]

\* What the extraction collaborator returns for a chunk when it succeeds
UnitResult(chunk) ==
    LET k == UnitIndex(chunk) % 3
    IN  CASE k = 1 ->
              [NoEntities EXCEPT
                 !.dynasties = << [uid |-> "dynasty_x", name |-> "HouLiang"] >>,
                 !.persons = << PlainPerson("person_a", "ZhuWen", {"ZhuQuanzhong"}) >>,
                 !.relations = << [source |-> "ZhuWen", target |-> "LiKeyong",
                                   relation_type |-> <<"k", "a">>, year |-> None,
                                   description |-> ""] >>]
          [] k = 2 ->
              [NoEntities EXCEPT
                 !.persons = << PlainPerson("person_b", "LiKeyong", {"JinWang"}) >>,
                 !.events = << [uid |-> "event_x", name |-> "ShangYuanYi",
                                participants |-> <<"ZhuWen", "LiKeyong">>] >>]
          [] OTHER ->
              [NoEntities EXCEPT
                 !.places = << [uid |-> "place_x", name |-> "BianZhou"] >>,
                 !.persons = << PlainPerson("person_c", "ZhuQuanzhong", {}) >>,
                 !.relations = << [source |-> "LiKeyong", target |-> "ZhuWen",
                                   relation_type |-> <<"b", "-", "a">>,
                                   year |-> Some(907), description |-> "yi zi"] >>]

\* chunks whose extraction may fail (collaborator error or unparseable output)
FlakyUnits == {ChunkId(2), ChunkId(10)}

\* pipeline.py:60-71  upsert the dynasties / places of a result
RECURSIVE upsert_others(_, _, _)
upsert_others(os, label, nodes) ==
    IF nodes = << >> THEN os
    ELSE upsert_others(upsert_other(os, label, Head(nodes)), label, Tail(nodes))

\* pipeline.py:74-78  merge the persons of a result, one after the other:
\* the Person nodes afterwards and the uid each merge_person returned
RECURSIVE merge_persons(_, _)
merge_persons(ps, people) ==
    IF people = << >> THEN { [persons |-> ps, uids |-> << >>] }
    ELSE UNION { { [persons |-> rest.persons, uids |-> <<o.ret>> \o rest.uids] :
                      rest \in merge_persons(o.persons, Tail(people)) } :
                 o \in merge_person(ps, Head(people)) }

\* pipeline.py:74-78  the Person nodes after the persons of a result are merged
write_persons(ps, people) == { o.persons : o \in merge_persons(ps, people) }

\* pipeline.py:85-89  link the participants of one event
RECURSIVE link_participants(_, _, _, _, _)
link_participants(ps, os, es, event_uid, names) ==
    IF names = << >> THEN {es}
    ELSE UNION { link_participants(ps, os, es1, event_uid, Tail(names)) :
                    es1 \in link_event_participant(ps, os, es, event_uid, Head(names)) }

\* pipeline.py:81-91  upsert the events of a result and link their participants
RECURSIVE write_events(_, _, _, _)
write_events(ps, os, es, events) ==
    IF events = << >> THEN { [others |-> os, edges |-> es] }
    ELSE LET os1 == upsert_other(os, "Event", Head(events))
         IN  UNION { write_events(ps, os1, es1, Tail(events)) :
                        es1 \in link_participants(ps, os1, es, Head(events).uid,
                                                  Head(events).participants) }

\* pipeline.py:96-105  create the relations of a result: the edges afterwards
\* and what each create_relation_by_name returned
RECURSIVE create_relations(_, _, _, _)
create_relations(ps, os, es, relations) ==
    IF relations = << >> THEN { [edges |-> es, rets |-> << >>] }
    ELSE UNION { { [edges |-> rest.edges, rets |-> <<o.ret>> \o rest.rets] :
                      rest \in create_relations(ps, os, o.edges, Tail(relations)) } :
                 o \in create_relation_by_name(ps, os, es, Head(relations)) }

\* pipeline.py:96-105  the edges after the relations of a result are created
write_relations(ps, os, es, relations) ==
    { o.edges : o \in create_relations(ps, os, es, relations) }

\* IngestionPipeline._write_result_to_neo4j: the stores it may leave, with the
\* uids merge_person returned and the flags create_relation_by_name returned
write_result(store, result) ==
    LET os1 == upsert_others(upsert_others(store.others, "Dynasty", result.dynasties),
                             "Place", result.places)
    IN  UNION { UNION { { [store |-> [persons |-> mp.persons, others |-> ev.others,
                                      edges |-> cr.edges],
                           uids |-> mp.uids, rets |-> cr.rets] :
                            cr \in create_relations(mp.persons, ev.others, ev.edges,
                                                    result.relations) } :
                        ev \in write_events(mp.persons, os1, store.edges,
                                            result.events) } :
                mp \in merge_persons(store.persons, result.persons) }

\* IngestionPipeline._write_result_to_neo4j: the stores it may leave
_write_result_to_neo4j(store, result) ==
    { o.store : o \in write_result(store, result) }

\* The writes of _write_result_to_neo4j for a result, in the order of the
\* code: the kind of entity and its position; a participant link carries the
\* position of its event and its own
EntityWrites(kind, entities) == [j \in 1..Len(entities) |-> <<kind, j>>]

RECURSIVE EventWrites(_, _)
EventWrites(events, j) ==
    IF j > Len(events) THEN << >>
    ELSE << <<"event", j>> >>
            \o [m \in 1..Len(events[j].participants) |-> <<"link", j, m>>]
            \o EventWrites(events, j + 1)

WriteOrder(result) ==
    EntityWrites("dynasty", result.dynasties)
        \o EntityWrites("place", result.places)
        \o EntityWrites("person", result.persons)
        \o EventWrites(result.events, 1)
        \o EntityWrites("relation", result.relations)

AllWrites(result) == {WriteOrder(result)[n] : n \in 1..Len(WriteOrder(result))}

\* a loop without handlers: the first write that raises ends the unit
Attempted_until_failure(result, fails) ==
    LET order == WriteOrder(result)
    IN  {order[n] : n \in {x \in 1..Len(order) :
                              \A y \in 1..(x - 1) : order[y] \notin fails}}

\* pipeline.py:60-105  the writes that are attempted when the writes in fails
\* raise: each write has its own handler, and the participant links of an
\* event are inside the try of its upsert_event (pipeline.py:82-91)
Attempted(result, fails) ==
    {w \in AllWrites(result) : w[1] = "link" => <<"event", w[2]>> \notin fails}

\* The subsequence of seq at the positions in keep
Sub(seq, keep) ==
    LET kept == keep \cap (1..Len(seq))
        nth(n) == CHOOSE i \in kept : Cardinality({x \in kept : x < i}) = n - 1
    IN  [n \in 1..Cardinality(kept) |-> seq[nth(n)]]

\* The part of a result whose writes are in done
Effective(result, done) ==
    LET keep(kind, entities) ==
            Sub(entities, {j \in 1..Len(entities) : <<kind, j>> \in done})
        events == [j \in 1..Len(result.events) |->
                      [result.events[j] EXCEPT !.participants =
                          Sub(@, {m \in 1..Len(@) : <<"link", j, m>> \in done})]]
    IN  [dynasties |-> keep("dynasty", result.dynasties),
         places    |-> keep("place", result.places),
         persons   |-> keep("person", result.persons),
         events    |-> Sub(events, {j \in 1..Len(events) : <<"event", j>> \in done}),
         relations |-> keep("relation", result.relations)]

\* IngestionPipeline._write_result_to_neo4j when the writes in fails raise and
\* leave the store as it was: the stores it may leave
write_result_failing(store, result, fails) ==
    _write_result_to_neo4j(store,
                           Effective(result, Attempted(result, fails) \ fails))

\* _load_progress that reads the file and keeps the in-memory set
_load_progress_not_assigned(file, processed) == processed

\* IngestionPipeline._load_progress: _processed_chunks after the call
_load_progress(file, processed) ==
    CASE file.state = "absent"  -> processed
      [] file.state = "corrupt" -> {}
      [] OTHER                  -> file.ids

\* a _save_progress that writes the ids the file held before the run only
_save_progress_stale(processed) ==
    [state |-> "ok", ids |-> processed \cap run.file_at_start.ids]

\* IngestionPipeline._save_progress: progress.json after the call
_save_progress(processed) == [state |-> "ok", ids |-> processed]

\* pending_chunks without the resume filter
pending_chunks_unfiltered(all, resume, processed, start_from, max_chunks) ==
    LET from == IF start_from > 0
                THEN SubSeq(all, start_from + 1, Len(all)) ELSE all
    IN  IF max_chunks # None
        THEN SubSeq(from, 1, IF max_chunks[1] < Len(from) THEN max_chunks[1] ELSE Len(from))
        ELSE from

\* pipeline.py:157-169  the chunks a run iterates over
pending_chunks(all, resume, processed, start_from, max_chunks) ==
    LET NotDone(c) == c \notin processed
        pending == IF resume /\ processed # {} THEN SelectSeq(all, NotDone) ELSE all
        from == IF start_from > 0
                THEN SubSeq(pending, start_from + 1, Len(pending)) ELSE pending
    IN  IF max_chunks # None
        THEN SubSeq(from, 1, IF max_chunks[1] < Len(from) THEN max_chunks[1] ELSE Len(from))
        ELSE from

\* crud.py:547-555  name and aliases of every Person node
get_all_person_names(ps) ==
    { [name |-> ps[u].original_name, aliases |-> ps[u].aliases] : u \in DOMAIN ps }

\* extractor.py:168  the entries of the cache the context text lists; the
\* order of the cache (by original_name) is not modelled, so beyond the limit
\* any ContextLimit entries may be the listed ones
ContextOf(cache) ==
    IF Cardinality(cache) <= ContextLimit THEN {cache}
    ELSE {c \in SUBSET cache : Cardinality(c) = ContextLimit}

\* extractor.py:156-161  the reload of the cache from the store: it
\* succeeds and resets the counter, or fails and leaves an empty cache and
\* the counter as it was
reload_cache(ext, ps) ==
    { [extractor |-> [cache |-> Some(get_all_person_names(ps)), counter |-> 0],
       context |-> c, fault |-> FALSE] :
           c \in ContextOf(get_all_person_names(ps)) }
    \cup { [extractor |-> [ext EXCEPT !.cache = Some({})], context |-> {},
            fault |-> TRUE] }

\* a _build_existing_context that reuses the cache once more before it reloads
_build_existing_context_late(ext, ps) ==
    IF ext.cache # None /\ ext.counter <= CacheLimit
    THEN { [extractor |-> [ext EXCEPT !.counter = @ + 1], context |-> c,
            fault |-> FALSE] : c \in ContextOf(ext.cache[1]) }
    ELSE reload_cache(ext, ps)

\* KnowledgeExtractor._build_existing_context(force_refresh = False): the
\* extractor after the call and the listed entries; fault marks a failed
\* reload (extractor.py:160-161)
_build_existing_context(ext, ps) ==
    IF ext.cache # None /\ ext.counter < CacheLimit
    THEN { [extractor |-> [ext EXCEPT !.counter = @ + 1], context |-> c,
            fault |-> FALSE] : c \in ContextOf(ext.cache[1]) }
    ELSE reload_cache(ext, ps)

\* The names a context lists
ContextNames(context) ==
    UNION { {e.name} \cup e.aliases : e \in context }

\* The names of the persons of an extraction result
ResultNames(result) ==
    UNION { all_names(result.persons[j]) : j \in 1..Len(result.persons) }

\* pipeline.py:192-194 and 202-206  _save_progress, then the results snapshot
\* and the statistics: progress.json afterwards and the call that raised.
\* A failed _save_progress leaves the file as it was (mkdir or open failed)
\* or truncated (write failed part-way).
flush(file, processed) ==
    { [file |-> _save_progress(processed), failed |-> "none"],
      [file |-> file, failed |-> "progress"],
      [file |-> [state |-> "corrupt", ids |-> {}], failed |-> "progress"],
      [file |-> _save_progress(processed), failed |-> "results"] }

\* IngestionPipeline._save_extraction_results(results) without suffix:
\* extraction_results.json after the call; results are named by their units
_save_extraction_results(results) == [state |-> "ok", ids |-> results]

\* pipeline.py:202-203  extraction_results.json after the final flush: not
\* reached when _save_progress raised; as it was or truncated when the write
\* of the results raised
save_results(file, results, failed) ==
    CASE failed = "none"    -> { _save_extraction_results(results) }
      [] failed = "results" -> { file, [state |-> "corrupt", ids |-> {}] }
      [] OTHER              -> { file }

\* a run that catches the exception of a failed flush and goes on
propagates_never(failed) == FALSE

\* pipeline.py:192-193 and 202-203  _save_progress and
\* _save_extraction_results are called outside any try: what they raise
\* leaves run
propagates(failed) == failed # "none"

\* pipeline.py:132-172  run() up to the start of the loop
StartRun(args) ==
    LET processed == IF args.clear_db THEN {}
                     ELSE IF args.resume
                          THEN _load_progress(progress_file, processed_chunks)
                          ELSE processed_chunks
        store == IF args.clear_db THEN EmptyStore ELSE Snapshot
        read_failed == ~args.clear_db /\ args.resume
                            /\ progress_file.state = "corrupt"
    IN  /\ pc \in {"idle", "done", "aborted"}
        /\ run.n < MaxRuns
        /\ persons' = store.persons
        /\ others' = store.others
        /\ edges' = store.edges
        /\ processed_chunks' = processed
        /\ chunks' = pending_chunks(args.corpus, args.resume, processed,
                                    args.start_from, args.max_chunks)
        /\ run' = [NoRun EXCEPT !.n = run.n + 1, !.clear_db = args.clear_db,
                      !.resume = args.resume, !.corpus = args.corpus,
                      !.failed_before = hist.failed,
                      !.read_failed = read_failed,
                      !.at_failure = IF read_failed
                                     THEN Some([extracted |-> {}, written |-> {}])
                                     ELSE None,
                      !.file_at_start = progress_file,
                      !.store_at_start = Snapshot,
                      !.start_from = args.start_from,
                      !.max_chunks = args.max_chunks,
                      !.processed_at_start = processed]
        /\ hist' = [hist EXCEPT !.applied = IF args.clear_db THEN {} ELSE @,
                                 !.cleared = @ \/ args.clear_db]
        /\ pc' = IF args.corpus = << >> THEN "done" ELSE "loop"
        /\ UNCHANGED <<progress_file, results_file, extractor>>
        /\ UNCHANGED callVars
        /\ UNCHANGED sideVars

\* pipeline.py:179  extractor.extract_from_chunk(chunk)
ExtractUnit ==
    /\ pc = "loop"
    /\ run.i < Len(chunks)
    /\ LET chunk == chunks[run.i + 1]
       IN  \E c \in _build_existing_context(extractor, persons),
              result \in {Some(UnitResult(chunk))}
                            \cup (IF chunk \in FlakyUnits THEN {None} ELSE {}) :
              /\ c.fault => hist.faults < MaxFaults
              /\ extractor' = c.extractor
              /\ run' = [run EXCEPT !.result = result,
                                    !.extracted = @ \cup {chunk},
                                    !.context = ContextNames(c.context)]
              /\ hist' = [hist EXCEPT !.faults = IF c.fault THEN @ + 1 ELSE @]
    /\ pc' = "extracted"
    /\ UNCHANGED <<chunks, processed_chunks, progress_file, results_file>>
    /\ UNCHANGED storeVars
    /\ UNCHANGED callVars
    /\ UNCHANGED sideVars

\* pipeline.py:180-185  write the result, or skip the unit when there is none
WriteUnit ==
    /\ pc = "extracted"
    /\ LET chunk == chunks[run.i + 1]
           raising == IF run.result = None \/ hist.faults >= MaxFaults THEN {{}}
                      ELSE {{}} \cup {{w} : w \in AllWrites(run.result[1])}
       IN  \E fails \in raising :
           /\ IF run.result # None
              THEN /\ \E store \in write_result_failing(Snapshot, run.result[1],
                                                         fails) :
                         /\ persons' = store.persons
                         /\ others' = store.others
                         /\ edges' = store.edges
                   /\ run' = [run EXCEPT
                                 !.written = @ \cup {chunk},
                                 !.written_names =
                                     @ \cup ResultNames(
                                              Effective(run.result[1],
                                                  AllWrites(run.result[1]) \ fails)),
                                 !.attempted = Attempted(run.result[1], fails),
                                 !.failed_writes =
                                     @ \cup {<<chunk, w>> : w \in fails}]
              ELSE /\ UNCHANGED storeVars
                   /\ run' = [run EXCEPT !.failed = @ \cup {chunk},
                                         !.attempted = {}]
           /\ hist' = [hist EXCEPT
                          !.returned = @ \cup {chunk},
                          !.applied = @ \cup {chunk},
                          !.failed = IF run.result = None THEN @ \cup {chunk} ELSE @,
                          !.succeeded = IF run.result = None THEN @ \ {chunk}
                                        ELSE @ \cup {chunk},
                          !.faults = IF fails = {} THEN @ ELSE @ + 1]
    /\ pc' = "written"
    /\ UNCHANGED <<chunks, processed_chunks, progress_file, results_file,
                   extractor>>
    /\ UNCHANGED callVars
    /\ UNCHANGED sideVars

\* marks the unit after the current one
marked_chunk_next(units, i) ==
    units[IF i + 2 <= Len(units) THEN i + 2 ELSE i + 1]

\* pipeline.py:188  the id that _processed_chunks.add receives
marked_chunk(units, i) == units[i + 1]

\* pipeline.py:187-199  record the unit as processed; flush every 10th unit
MarkUnit ==
    /\ pc = "written"
    /\ processed_chunks' = processed_chunks \cup {marked_chunk(chunks, run.i)}
    /\ IF (run.i + 1) % SaveEvery = 0
       THEN /\ pc' = "marked"
            /\ UNCHANGED run
       ELSE /\ pc' = "loop"
            /\ run' = [run EXCEPT !.i = @ + 1, !.result = None]
    /\ UNCHANGED <<chunks, extractor, progress_file, results_file, hist>>
    /\ UNCHANGED storeVars
    /\ UNCHANGED callVars
    /\ UNCHANGED sideVars

\* pipeline.py:191-195  the flush after every 10th unit of the loop
FlushUnit ==
    /\ pc = "marked"
    /\ \E f \in flush(progress_file, processed_chunks) :
          /\ f.failed # "none" => hist.faults < MaxFaults
          /\ progress_file' = f.file
          /\ run' = [run EXCEPT
                        !.i = @ + 1, !.result = None,
                        !.io_failed = f.failed,
                        !.at_failure =
                            IF f.failed = "none" THEN @
                            ELSE Some([extracted |-> run.extracted,
                                       written |-> run.written])]
          /\ hist' = [hist EXCEPT
                        !.faults = IF f.failed = "none" THEN @ ELSE @ + 1,
                        !.save_failed = @ \/ f.failed = "progress"]
          /\ pc' = IF propagates(f.failed) THEN "aborted" ELSE "loop"
    /\ UNCHANGED <<chunks, processed_chunks, extractor, results_file>>
    /\ UNCHANGED storeVars
    /\ UNCHANGED callVars
    /\ UNCHANGED sideVars

\* pipeline.py:201-209  after the loop
FinishRun ==
    /\ pc = "loop"
    /\ run.i = Len(chunks)
    /\ \E f \in flush(progress_file, processed_chunks) :
          /\ f.failed # "none" => hist.faults < MaxFaults
          /\ progress_file' = f.file
          /\ run' = [run EXCEPT
                        !.io_failed = f.failed,
                        !.at_failure =
                            IF f.failed = "none" THEN @
                            ELSE Some([extracted |-> run.extracted,
                                       written |-> run.written])]
          /\ hist' = [hist EXCEPT
                        !.faults = IF f.failed = "none" THEN @ ELSE @ + 1,
                        !.save_failed = @ \/ f.failed = "progress"]
          /\ results_file' \in save_results(results_file, run.written, f.failed)
          /\ pc' = IF propagates(f.failed) THEN "aborted" ELSE "done"
    /\ UNCHANGED <<chunks, processed_chunks, extractor>>
    /\ UNCHANGED storeVars
    /\ UNCHANGED callVars
    /\ UNCHANGED sideVars

\* The process is killed inside the loop of run (pipeline.py:176-199); the
\* store and progress.json are what they were
Crash ==
    /\ pc \in {"loop", "extracted", "written", "marked"}
    /\ hist.faults < MaxFaults
    /\ pc' = "crashed"
    /\ hist' = [hist EXCEPT !.faults = @ + 1]
    /\ UNCHANGED <<run, chunks, processed_chunks, progress_file, results_file,
                   extractor>>
    /\ UNCHANGED storeVars
    /\ UNCHANGED callVars
    /\ UNCHANGED sideVars

\* pipeline.py:241, extractor.py:316  a new process builds a new
\* IngestionPipeline and a new KnowledgeExtractor; the store and
\* progress.json outlive the process
Restart ==
    /\ pc \in {"done", "aborted", "crashed"}
    /\ pc = "crashed" \/ processed_chunks # {} \/ extractor # NoExtractor
    /\ pc' = "idle"
    /\ processed_chunks' = {}
    /\ extractor' = NoExtractor
    /\ hist' = [hist EXCEPT !.save_failed = FALSE]
    /\ UNCHANGED <<run, chunks, progress_file, results_file>>
    /\ UNCHANGED storeVars
    /\ UNCHANGED callVars
    /\ UNCHANGED sideVars

RunInputs ==
    { [clear_db |-> FALSE, resume |-> TRUE,  corpus |-> UnitIds, start_from |-> 0, max_chunks |-> None],
      [clear_db |-> FALSE, resume |-> TRUE,  corpus |-> UnitIds, start_from |-> 1, max_chunks |-> None],
      [clear_db |-> FALSE, resume |-> TRUE,  corpus |-> UnitIds, start_from |-> 0, max_chunks |-> Some(2)],
      [clear_db |-> TRUE,  resume |-> TRUE,  corpus |-> UnitIds, start_from |-> 0, max_chunks |-> None],
      [clear_db |-> FALSE, resume |-> FALSE, corpus |-> UnitIds, start_from |-> 0, max_chunks |-> None],
      [clear_db |-> TRUE,  resume |-> FALSE, corpus |-> UnitIds, start_from |-> 1, max_chunks |-> Some(2)],
      [clear_db |-> FALSE, resume |-> TRUE,  corpus |-> << >>,   start_from |-> 0, max_chunks |-> None] }

StartStep == \E args \in RunInputs : StartRun(args)

InitPipe ==
    /\ persons = << >>
    /\ others = << >>
    /\ edges = << >>
    /\ last = NoOp
    /\ before = EmptyStore
    /\ ncalls = 0
    /\ IdleRest
    /\ progress_file \in {NoFile, [state |-> "corrupt", ids |-> {}]}
    /\ results_file = NoFile

NextPipe ==
    \/ StartStep
    \/ ExtractUnit
    \/ WriteUnit
    \/ MarkUnit
    \/ FlushUnit
    \/ FinishRun
    \/ Crash
    \/ Restart

SpecPipe == InitPipe /\ [][NextPipe]_vars

-----------------------------------------------------------------------------
(* Concurrent merge_person calls, src/graph/crud.py *)

\* crud.py:137  what find_person_by_any_name may return to merge_person: None
\* or the uid and the properties of a matching node as they are now
lookup_person(ps, person) ==
    LET found == find_person_by_any_name(ps, all_names(person))
    IN  IF found = {} THEN {None}
        ELSE { Some([uid |-> u, node |-> ps[u]]) : u \in found }

\* crud.py:182-209  MATCH (p:Person {uid}) SET ... : the properties the
\* statement sets are computed from the looked-up record, the others stay
update_person(ps, uid, existing, person) ==
    LET m == MergedNode(existing, person)
    IN  [u \in DOMAIN ps |->
            IF u = uid
            THEN [ps[u] EXCEPT
                    !.aliases = m.aliases,
                    !.loyalty = m.loyalty,
                    !.description = m.description,
                    !.birth_year = IF m.birth_year # existing.birth_year
                                   THEN m.birth_year ELSE @,
                    !.death_year = IF m.death_year # existing.death_year
                                   THEN m.death_year ELSE @,
                    !.death_cause = IF m.death_cause # existing.death_cause
                                    THEN m.death_cause ELSE @,
                    !.role = IF m.role # existing.role THEN m.role ELSE @]
            ELSE ps[u]]

\* merge_person with the pollution guard switched off
write_person_unguarded(ps, person, existing) ==
    IF existing = None
    THEN [persons |-> upsert_person(ps, person), ret |-> person.uid,
          path |-> "create"]
    ELSE [persons |-> update_person(ps, existing[1].uid, existing[1].node, person),
          ret |-> existing[1].uid, path |-> "merge"]

\* crud.py:139-226  merge_person after the lookup: the Person nodes after the
\* write, the returned uid and the branch taken
write_person(ps, person, existing) ==
    IF existing = None
    THEN [persons |-> upsert_person(ps, person), ret |-> person.uid,
          path |-> "create"]
    ELSE IF GuardTrips(existing[1].node, person)
    THEN [persons |-> upsert_person(ps, person), ret |-> person.uid,
          path |-> "guard"]
    ELSE [persons |-> update_person(ps, existing[1].uid, existing[1].node, person),
          ret |-> existing[1].uid, path |-> "merge"]

Workers == {1, 2}

\* The number of calls whose write has completed
WritesDone == Cardinality({w \in Workers : workers[w].pc = "done"})

\* crud.py:136-137  the lookup of worker w's merge_person call
Lookup(w) ==
    /\ workers # << >>
    /\ workers[w].pc = "lookup"
    /\ \E existing \in lookup_person(persons, workers[w].person) :
          workers' = [workers EXCEPT ![w].pc = "write",
                                     ![w].existing = existing,
                                     ![w].saw = WritesDone]
    /\ UNCHANGED <<llm, repair, cleanup, ctxlog>>
    /\ UNCHANGED storeVars
    /\ UNCHANGED callVars
    /\ UNCHANGED pipeVars

\* crud.py:139-226  the write of worker w's merge_person call
Write(w) ==
    /\ workers # << >>
    /\ workers[w].pc = "write"
    /\ LET o == write_person(persons, workers[w].person, workers[w].existing)
       IN  /\ persons' = o.persons
           /\ workers' = [workers EXCEPT ![w].pc = "done", ![w].ret = o.ret,
                                         ![w].path = o.path]
    /\ UNCHANGED <<others, edges, llm, repair, cleanup, ctxlog>>
    /\ UNCHANGED callVars
    /\ UNCHANGED pipeVars

\* The candidates of the two calls
ConcPersons(u) ==
    { PlainPerson(u, n, a) :
        n \in {"ZhuWen", "B", "TaiZong"},
        a \in { {}, {"ZhuWen"}, {"B"}, {"TaiZong"}, Filler(1, 13), Filler(14, 26) } }

\* Two candidates with different uids that have a name in common which is not
\* a blacklisted title
ConcPairs ==
    { pair \in ConcPersons("person_a") \X ConcPersons("person_b") :
        (all_names(pair[1]) \cap all_names(pair[2])) \ AMBIGUOUS_TITLES # {} }

\* The stores the two calls start from: no node carries a name of the
\* candidates
ConcStores ==
    { << >>,
      [person_x |-> SetProps(<< >>, PlainPerson("person_x", "LiKeyong",
                                                {"JinWang"}))],
      [person_a |-> SetProps(<< >>, PlainPerson("person_a", "LiKeyong",
                                                {"JinWang"}))] }

\* before holds the store the two calls started from
InitConc ==
    /\ persons \in ConcStores
    /\ before = [EmptyStore EXCEPT !.persons = persons]
    /\ others = << >>
    /\ edges = << >>
    /\ last = NoOp
    /\ ncalls = 0
    /\ pc = "idle"
    /\ run = NoRun
    /\ chunks = << >>
    /\ processed_chunks = {}
    /\ progress_file = NoFile
    /\ results_file = NoFile
    /\ extractor = NoExtractor
    /\ hist = NoHist
    /\ llm = NoLLM
    /\ repair = "idle"
    /\ cleanup = NoCleanup
    /\ ctxlog = NoContextLog
    /\ \E pair \in ConcPairs :
          workers = [w \in Workers |->
                        [person |-> pair[w], pc |-> "lookup", existing |-> None,
                         saw |-> 0, ret |-> "", path |-> ""]]

LookupStep == \E w \in Workers : Lookup(w)

WriteStep == \E w \in Workers : Write(w)

NextConc == LookupStep \/ WriteStep

SpecConc == InitConc /\ [][NextConc]_vars

-----------------------------------------------------------------------------
(* Replaying extraction results, pipeline.py:221-238 *)

\* One application of IngestionPipeline._write_result_to_neo4j, as
\* run_from_saved performs for every saved result
ApplyResult(result) ==
    /\ ncalls < MaxCalls
    /\ \E o \in write_result(Snapshot, result) :
          /\ persons' = o.store.persons
          /\ others' = o.store.others
          /\ edges' = o.store.edges
          /\ last' = [op |-> "_write_result_to_neo4j", arg |-> result,
                      ret |-> [uids |-> o.uids, rets |-> o.rets],
                      path |-> "", matched |-> None]
    /\ before' = Snapshot
    /\ ncalls' = ncalls + 1
    /\ UNCHANGED pipeVars
    /\ UNCHANGED sideVars

\* The extraction results that are applied
ReplayInputs ==
    { UnitResult(ChunkId(1)), UnitResult(ChunkId(2)), UnitResult(ChunkId(3)),
      [NoEntities EXCEPT
         !.persons = << PlainPerson("person_d", "TaiZong", {}) >>],
      [NoEntities EXCEPT
         !.persons = << PlainPerson("person_e", "TaiZong", {}),
                        PlainPerson("person_b", "LiKeyong", {}) >>,
         !.events = << [uid |-> "event_y", name |-> "JiWei",
                        participants |-> <<"TaiZong">>] >>,
         !.relations = << [source |-> "TaiZong", target |-> "LiKeyong",
                           relation_type |-> <<"k">>, year |-> None,
                           description |-> ""] >>],
      [NoEntities EXCEPT
         !.persons = << PlainPerson("person_a", "ZhuWen",
                                    Filler(1, 25) \cup {"B"}) >>],
      [NoEntities EXCEPT
         !.persons = << PlainPerson("person_f", "ZhuWen", {"ZhuHuang"}) >>],
      [NoEntities EXCEPT
         !.persons = << PlainPerson("person_g", "GuoWei", {"GuoQueEr"}),
                        PlainPerson("person_g", "GuoChongWei", {}) >>,
         !.relations = << [source |-> "GuoChongWei", target |-> "GuoQueEr",
                           relation_type |-> <<"k">>, year |-> None,
                           description |-> ""],
                          [source |-> "GuoChongWei", target |-> "ChaiRong",
                           relation_type |-> <<"a">>, year |-> None,
                           description |-> ""] >>],
      [NoEntities EXCEPT
         !.persons = << PlainPerson("person_h", "ShiJingTang", {}),
                        PlainPerson("person_i", "SangWeiHan", {"GuoQiao"}) >>,
         !.events = << [uid |-> "event_z", name |-> "GeYanYun",
                        participants |-> <<"ShiJingTang", "SangWeiHan">>] >>,
         !.relations = << [source |-> "GuoQiao", target |-> "ShiJingTang",
                           relation_type |-> <<"a">>, year |-> None,
                           description |-> ""] >>],
      [NoEntities EXCEPT
         !.relations = << [source |-> "ZhuWen", target |-> "LiKeyong",
                           relation_type |-> <<"k">>, year |-> None,
                           description |-> ""],
                          [source |-> "LiKeyong", target |-> "ZhuQuanzhong",
                           relation_type |-> <<"k">>, year |-> Some(907),
                           description |-> "di"],
                          [source |-> "ZhuWen", target |-> "LiKeyong",
                           relation_type |-> <<"a">>, year |-> Some(884),
                           description |-> "meng"] >>],
      [NoEntities EXCEPT
         !.relations = << [source |-> "TaiZong", target |-> "LiKeyong",
                           relation_type |-> <<"k">>, year |-> None,
                           description |-> ""],
                          [source |-> "LiKeyong", target |-> "TaiZong",
                           relation_type |-> <<"a">>, year |-> None,
                           description |-> ""] >>] }

ApplyStep == \E result \in ReplayInputs : ApplyResult(result)

NextReplay == ApplyStep

SpecReplay == Init /\ [][NextReplay]_vars

-----------------------------------------------------------------------------
(* Repair of the event relations, src/scripts/llm_batch_cleanup.py *)

\* In this part a text (a description, the name of an event or of a person)
\* is the sequence of its characters, one pinyin syllable per character.

\* llm_batch_cleanup.py:52
MEMORIAL_KEYWORDS ==
    { <<"Zhui", "Feng">>, <<"Zhui", "Zeng">>, <<"Zhui", "Shi">>, <<"Ji">>,
      <<"Zang">>, <<"Ling">>, <<"An", "Zang">>, <<"Yi", "Ming">>,
      <<"Yi", "Zhao">>, <<"Miao", "Hao">>, <<"Shi", "Hao">> }

\* kw in text
Contains(text, kw) ==
    \E i \in 1..(Len(text) - Len(kw) + 1) : SubSeq(text, i, i + Len(kw) - 1) = kw

\* any(kw in desc for kw in MEMORIAL_KEYWORDS)
HasMemorialKeyword(text) == \E kw \in MEMORIAL_KEYWORDS : Contains(text, kw)

ParticipationEdge(uid, euid) ==
    << <<"Person", uid>>, <<"Event", euid>>, <<"PARTICIPATED_IN">> >>

EventUids(os) == {k[2] : k \in {j \in DOMAIN os : j[1] = "Event"}}

\* llm_batch_cleanup.py:356-363  uid -> death_year of the persons that have one
death_years(ps) ==
    [u \in {x \in DOMAIN ps : ps[x].death_year # None} |-> ps[u].death_year[1]]

\* llm_batch_cleanup.py:373-378  the events the person takes part in whose
\* year is after the death year (a comparison with a missing year is not true)
post_death(os, es, uid, dy) ==
    {e \in EventUids(os) :
        /\ ParticipationEdge(uid, e) \in DOMAIN es
        /\ os[<<"Event", e>>].year # None
        /\ os[<<"Event", e>>].year[1] > dy}

\* llm_batch_cleanup.py:384-388  desc = description + name, without separator
to_remove(os, es, uid, dy) ==
    {e \in post_death(os, es, uid, dy) :
        ~HasMemorialKeyword(os[<<"Event", e>>].description
                                \o os[<<"Event", e>>].name)}

\* a removal step that deletes one edge per call
remove_post_death_one(ps, os, es) ==
    LET dys  == death_years(ps)
        gone == UNION { {ParticipationEdge(u, e) :
                            e \in to_remove(os, es, u, dys[u])} :
                        u \in DOMAIN dys }
    IN  IF gone = {} THEN es
        ELSE [k \in DOMAIN es \ {CHOOSE g \in gone : TRUE} |-> es[k]]

\* llm_batch_cleanup.py:371-396  the edges after the removal step
remove_post_death(ps, os, es) ==
    LET dys  == death_years(ps)
        gone == UNION { {ParticipationEdge(u, e) :
                            e \in to_remove(os, es, u, dys[u])} :
                        u \in DOMAIN dys }
    IN  [k \in DOMAIN es \ gone |-> es[k]]

\* The names get_all_person_name_map has keys for
MappedNames(ps) ==
    {ps[u].original_name : u \in DOMAIN ps}
        \cup UNION { {a \in ps[u].aliases : Len(a) > 1} : u \in DOMAIN ps }

\* llm_batch_cleanup.py:336-344  the uids a name may map to: a person with
\* that canonical name when there is one (the last row wins), else a person
\* with that alias (the first row wins); the order of the rows is not fixed
NameMapValues(ps, name) ==
    LET canon == {u \in DOMAIN ps : ps[u].original_name = name}
    IN  IF canon # {} THEN canon
        ELSE {u \in DOMAIN ps : name \in ps[u].aliases}

\* get_all_person_name_map: the maps it may return
get_all_person_name_map(ps) ==
    {m \in [MappedNames(ps) -> DOMAIN ps] :
        \A n \in MappedNames(ps) : m[n] \in NameMapValues(ps, n)}

\* llm_batch_cleanup.py:420  desc = description + " " + name
LinkText(event) == event.description \o <<" ">> \o event.name

\* llm_batch_cleanup.py:423-434
should_link(name_map, event) ==
    {name_map[event.participants[j]] :
        j \in {i \in 1..Len(event.participants) :
                  event.participants[i] \in DOMAIN name_map}}
    \cup {name_map[n] :
            n \in {x \in DOMAIN name_map :
                      Len(x) >= 2 /\ Contains(LinkText(event), x)}}

\* llm_batch_cleanup.py:437-446
final_link(name_map, dys, event) ==
    {u \in should_link(name_map, event) :
        IF /\ u \in DOMAIN dys /\ dys[u] # 0
           /\ event.year # None /\ event.year[1] # 0
           /\ event.year[1] > dys[u]
        THEN HasMemorialKeyword(LinkText(event))
        ELSE TRUE}

\* llm_batch_cleanup.py:416-459, 485-503  the edges after the missing
\* participations have been added
add_event_links(ps, os, es, name_map) ==
    LET dys == death_years(ps)
        new == UNION { {ParticipationEdge(u, e) :
                          u \in final_link(name_map, dys, os[<<"Event", e>>])} :
                       e \in EventUids(os) }
    IN  [k \in DOMAIN es \cup new |->
            IF k \in DOMAIN es THEN es[k]
            ELSE [description |-> None, year |-> None, role |-> Some("CanYuZhe")]]

\* llm_batch_cleanup.py:463-473  self loops are deleted; of several edges of
\* one type between two nodes one is kept (edges are keyed by that triple)
remove_duplicates(es) ==
    [k \in {j \in DOMAIN es : j[1] # j[2]} |-> es[k]]

\* llm_batch_cleanup.py:349-487  the edges after the pass
phase2_edges(ps, os, es, name_map) ==
    remove_duplicates(
        add_event_links(ps, os, remove_post_death(ps, os, es), name_map))

\* The body of run_phase2_event_relations; to is the position afterwards
phase2(to) ==
    /\ \E name_map \in get_all_person_name_map(persons) :
          edges' = phase2_edges(persons, others, edges, name_map)
    /\ before' = Snapshot
    /\ repair' = to
    /\ UNCHANGED <<persons, others, last, ncalls, workers, llm, cleanup, ctxlog>>
    /\ UNCHANGED pipeVars

\* run_phase2_event_relations
run_phase2_event_relations ==
    /\ repair = "idle"
    /\ phase2("done")

\* run_phase2_event_relations, called again directly after it has finished
run_phase2_again ==
    /\ repair = "done"
    /\ phase2("twice")

\* The stores the repair is run on
RepairPersons ==
    { [ person_a |-> [PlainPerson("person_a", <<"Zhu", "Wen">>,
                                  { <<"Zhu", "Quan", "Zhong">> })
                        EXCEPT !.death_year = dy],
        person_b |-> [PlainPerson("person_b", <<"Li", "Cun", "Xu">>, {})
                        EXCEPT !.death_year = Some(926)] ] :
        dy \in {None, Some(907), Some(912)} }

RepairEvents ==
    { [name |-> n, year |-> y, description |-> d, participants |-> p] :
        n \in { <<"Zhan", "Yi">>, <<"Feng", "Shan">>, <<"Guo", "Zang">> },
        y \in { None, Some(908), Some(912), Some(920) },
        d \in { << >>, <<"Zhu", "Wen", "Bai">>,
                <<"Zhui", "Feng", "Zhu", "Wen">>, <<"Gai", "Zhui">> },
        p \in { << >>, << <<"Zhu", "Wen">> >> } }

RepairOthers ==
    { ( <<"Event", "event_x">> :> ev )
        @@ ( <<"Event", "event_y">> :>
                [name |-> <<"Mie", "Liang">>, year |-> Some(923),
                 description |-> << >>, participants |-> << >>] ) :
        ev \in RepairEvents }

RepairEdges ==
    { [k \in keys |-> [description |-> None, year |-> None,
                       role |-> Some("CanYuZhe")]] :
        keys \in SUBSET { ParticipationEdge(u, e) :
                            u \in {"person_a", "person_b"},
                            e \in {"event_x", "event_y"} } }

InitRepair ==
    /\ persons \in RepairPersons
    /\ others \in RepairOthers
    /\ edges \in RepairEdges
    /\ last = NoOp
    /\ before = EmptyStore
    /\ ncalls = 0
    /\ IdleRest
    /\ progress_file = NoFile
    /\ results_file = NoFile

NextRepair == run_phase2_event_relations

SpecRepair == InitRepair /\ [][NextRepair]_vars

-----------------------------------------------------------------------------
(* llm_batch_cleanup.py, phase 1: alias cleanup *)

\* llm_batch_cleanup.py:38-49  the uids repaired by hand (one stands for all)
ALREADY_FIXED_UIDS == {"person_c"}

\* get_persons_to_clean that never drops the uids repaired by hand
get_persons_to_clean_all(ps, min_aliases, skip_fixed) ==
    LET uids == { u \in DOMAIN ps :
                    Cardinality(ps[u].aliases) >= min_aliases }
    IN  [u \in uids |-> [name |-> ps[u].original_name,
                         aliases |-> ps[u].aliases]]

\* get_persons_to_clean: the rows of the query, uid -> name and stored aliases
get_persons_to_clean(ps, min_aliases, skip_fixed) ==
    LET uids == { u \in DOMAIN ps :
                    /\ Cardinality(ps[u].aliases) >= min_aliases
                    /\ (skip_fixed => u \notin ALREADY_FIXED_UIDS) }
    IN  [u \in uids |-> [name |-> ps[u].original_name,
                         aliases |-> ps[u].aliases]]

\* A name the oracle may answer with although no row lists it
OtherName == "LiangTaizu"

\* clean_aliases_with_llm: None when the call fails or the answer cannot be
\* parsed, else the two lists of the answer, which nothing compares with the
\* aliases that were sent
clean_aliases_with_llm(person) ==
    {None} \cup
    UNION { { Some([correct_aliases |-> c, wrong_aliases |-> w]) :
                w \in { {}, person.aliases \ c, {OtherName} } } :
            c \in SUBSET (person.aliases \cup {OtherName}) }

\* apply_alias_fix: SET p.aliases = sorted(set(correct_aliases))
apply_alias_fix(ps, uid, correct_aliases) ==
    IF uid \in DOMAIN ps
    THEN [ps EXCEPT ![uid].aliases = correct_aliases]
    ELSE ps

\* llm_batch_cleanup.py:240-250  run_phase1_alias_cleanup up to the loop,
\* called at position from
StartCleanupAt(from, min_aliases, skip_fixed) ==
    LET done == IF skip_fixed THEN cleanup.phase1_done ELSE {}
        rows == get_persons_to_clean(persons, min_aliases, skip_fixed)
    IN  /\ cleanup.pos = from
        /\ cleanup' = [cleanup EXCEPT !.pos = "phase1",
                          !.min_aliases = min_aliases,
                          !.skip_fixed = skip_fixed,
                          !.rows = rows,
                          !.remaining = DOMAIN rows \ done,
                          !.done_uids = done,
                          !.answers = << >>,
                          !.done_at_start = cleanup.phase1_done,
                          !.persons_at_start = persons,
                          !.pass = @ + 1]
        /\ UNCHANGED <<workers, llm, repair, ctxlog>>
        /\ UNCHANGED storeVars
        /\ UNCHANGED callVars
        /\ UNCHANGED pipeVars

\* run_phase1_alias_cleanup up to the loop
StartCleanup(min_aliases, skip_fixed) ==
    StartCleanupAt("idle", min_aliases, skip_fixed)

\* run_phase1_alias_cleanup called again, with the same arguments, directly
\* after it has finished
StartCleanupAgain ==
    /\ cleanup.pass = 1
    /\ StartCleanupAt("done", cleanup.min_aliases, cleanup.skip_fixed)

\* An oracle that gives the same verdict on a name whenever it is asked: the
\* names it calls wrong, the names it leaves out of both lists, the names it
\* adds to the correct ones, and the persons it fails for
oracle_answer(o, uid, person) ==
    IF uid \in o.fails THEN None
    ELSE Some([correct_aliases |->
                  (person.aliases \ (o.wrong \cup o.left_out)) \cup o.added,
               wrong_aliases |-> person.aliases \cap o.wrong])

\* The answers clean_aliases_with_llm may give in the state c for a row
answers_for(c, uid) ==
    IF c.oracle = None THEN clean_aliases_with_llm(c.rows[uid])
    ELSE { oracle_answer(c.oracle[1], uid, c.rows[uid]) }

\* The rows that can come next: ORDER BY size(p.aliases) DESC
NextRows(c) ==
    { u \in c.remaining :
        \A v \in c.remaining :
            Cardinality(c.rows[v].aliases) <= Cardinality(c.rows[u].aliases) }

\* llm_batch_cleanup.py:259-303  one round of the loop
CleanPerson ==
    /\ cleanup.pos = "phase1"
    /\ \E uid \in NextRows(cleanup) :
       \E result \in answers_for(cleanup, uid) :
          /\ persons' = IF result # None /\ result[1].wrong_aliases # {}
                        THEN apply_alias_fix(persons, uid,
                                             result[1].correct_aliases)
                        ELSE persons
          /\ cleanup' = [cleanup EXCEPT !.remaining = @ \ {uid},
                            !.done_uids = @ \cup {uid},
                            !.answers = @ @@ (uid :> result)]
    /\ UNCHANGED <<others, edges, workers, llm, repair, ctxlog>>
    /\ UNCHANGED callVars
    /\ UNCHANGED pipeVars

\* llm_batch_cleanup.py:313-323  the loop is over: save_progress
FinishCleanup ==
    /\ cleanup.pos = "phase1"
    /\ cleanup.remaining = {}
    /\ cleanup' = [cleanup EXCEPT !.pos = "done",
                      !.phase1_done = IF cleanup.answers = << >> THEN @
                                      ELSE cleanup.done_uids]
    /\ UNCHANGED <<workers, llm, repair, ctxlog>>
    /\ UNCHANGED storeVars
    /\ UNCHANGED callVars
    /\ UNCHANGED pipeVars

\* The stores the alias cleanup is run on
CleanupPersons ==
    { [ person_a |-> PlainPerson("person_a", "ZhuWen",
                                 {"ZhuQuanzhong", "ZhuHuang", "LiKeyong"}),
        person_b |-> PlainPerson("person_b", "LiKeyong", bs),
        person_c |-> PlainPerson("person_c", "LiCunXu",
                                 {"ZhuangZong", "JinWang"}) ] :
        bs \in { {"JinWang", "ZhuXie"}, {"JinWang", "ZhuXie", "ZhuWen"} } }

InitCleanup ==
    /\ persons \in CleanupPersons
    /\ others = << >>
    /\ edges = << >>
    /\ last = NoOp
    /\ before = EmptyStore
    /\ ncalls = 0
    /\ pc = "idle"
    /\ run = NoRun
    /\ chunks = << >>
    /\ processed_chunks = {}
    /\ extractor = NoExtractor
    /\ hist = NoHist
    /\ workers = << >>
    /\ llm = NoLLM
    /\ repair = "idle"
    /\ ctxlog = NoContextLog
    /\ cleanup \in { [NoCleanup EXCEPT !.phase1_done = d] :
                        d \in { {}, {"person_a"} } }
    /\ progress_file = NoFile
    /\ results_file = NoFile

StartCleanupStep ==
    \E min_aliases \in {2, 3}, skip_fixed \in BOOLEAN :
        StartCleanup(min_aliases, skip_fixed)

NextCleanup == StartCleanupStep \/ CleanPerson \/ FinishCleanup

SpecCleanup == InitCleanup /\ [][NextCleanup]_vars

-----------------------------------------------------------------------------
(* llm_batch_cleanup.py: a pass called twice in a row *)

\* The oracles of the repeated alias cleanup
Oracles ==
    [ wrong    : SUBSET {"LiKeyong", "ZhuWen", "JinWang"},
      left_out : { {}, {"ZhuHuang"} },
      added    : { {}, {OtherName} },
      fails    : { {}, {"person_b"} } ]

\* main with --phase 1: the alias cleanup only
InitAliasTwice ==
    /\ persons \in CleanupPersons
    /\ others = << >>
    /\ edges = << >>
    /\ repair = "unselected"
    /\ cleanup \in { [NoCleanup EXCEPT !.phase1_done = d, !.oracle = Some(o)] :
                        d \in { {}, {"person_a"} }, o \in Oracles }

\* main with --phase 2: the repair of the event relations only
InitRelationsTwice ==
    /\ persons \in RepairPersons
    /\ others \in RepairOthers
    /\ edges \in RepairEdges
    /\ repair = "idle"
    /\ cleanup = [NoCleanup EXCEPT !.pos = "unselected"]

InitTwice ==
    /\ last = NoOp
    /\ before = EmptyStore
    /\ ncalls = 0
    /\ pc = "idle"
    /\ run = NoRun
    /\ chunks = << >>
    /\ processed_chunks = {}
    /\ extractor = NoExtractor
    /\ hist = NoHist
    /\ workers = << >>
    /\ llm = NoLLM
    /\ ctxlog = NoContextLog
    /\ progress_file = NoFile
    /\ results_file = NoFile
    /\ (InitAliasTwice \/ InitRelationsTwice)

NextTwice ==
    \/ StartCleanupStep
    \/ CleanPerson
    \/ FinishCleanup
    \/ StartCleanupAgain
    \/ run_phase2_event_relations
    \/ run_phase2_again

SpecTwice == InitTwice /\ [][NextTwice]_vars

-----------------------------------------------------------------------------
(* The known-persons cache of the extractor over a sequence of calls *)

\* The persons written to the store between two calls
ContextPersons ==
    { PlainPerson("person_a", "ZhuWen", {}),
      PlainPerson("person_b", "LiKeyong", {"TaiZong"}) }

\* extractor.py:153-161  what a call of _build_existing_context did, from
\* the extractor before the call and its outcome: it answered from the
\* cache, loaded the cache from the store, or failed to load it
call_kind(ext, c) ==
    IF c.fault THEN "failed"
    ELSE IF c.extractor.counter = ext.counter + 1 THEN "reuse" ELSE "load"

\* The log after a call with outcome c
log_call(log, ext, c) ==
    LET kind == call_kind(ext, c)
    IN  [call |-> kind,
         reuses |-> IF kind = "reuse" THEN log.reuses + 1 ELSE 0,
         reuses_before |-> log.reuses,
         context |-> ContextNames(c.context)]

\* extractor.py:189-191  extract_from_chunk builds the context of its prompt
BuildContext ==
    /\ \E c \in _build_existing_context(extractor, persons) :
          /\ extractor' = c.extractor
          /\ ctxlog' = log_call(ctxlog, extractor, c)
    /\ UNCHANGED <<pc, run, chunks, processed_chunks, progress_file,
                   results_file, hist>>
    /\ UNCHANGED storeVars
    /\ UNCHANGED callVars
    /\ UNCHANGED <<workers, llm, repair, cleanup>>

\* extractor.py:289-292  extract_batch forces a reload after each save of
\* the intermediate results: _build_existing_context(force_refresh=True)
ForceRefresh ==
    /\ \E c \in reload_cache(extractor, persons) :
          /\ extractor' = c.extractor
          /\ ctxlog' = log_call(ctxlog, extractor, c)
    /\ UNCHANGED <<pc, run, chunks, processed_chunks, progress_file,
                   results_file, hist>>
    /\ UNCHANGED storeVars
    /\ UNCHANGED callVars
    /\ UNCHANGED <<workers, llm, repair, cleanup>>

\* pipeline.py:74-78  a person is written to the store between two calls
StoreStep == \E person \in ContextPersons : MergePersonCall(person)

NextContext ==
    \/ BuildContext
    \/ ForceRefresh
    \/ StoreStep

SpecContext == Init /\ [][NextContext]_vars

-----------------------------------------------------------------------------
(***************************************************************************)
(* The LLM client: VenusLLM.chat as called by extract_from_chunk           *)
(***************************************************************************)

\* What one requests.post and the reading of its response can come to:
\*   ok                a 200 response whose content parses as a result
\*   unparseable       a 200 response whose content is not usable JSON
\*   http_error        a response with another status (llm_client.py:65)
\*   timeout           requests.exceptions.Timeout (llm_client.py:88)
\*   connection_error  requests.exceptions.ConnectionError (llm_client.py:94)
\*   bad_body          a 200 response without JSON or without
\*                     choices[0].message.content (llm_client.py:75-76)
\*   request_error     another requests exception, such as a chunked
\*                     transfer that breaks off
Outcomes ==
    {"ok", "unparseable", "http_error", "timeout", "connection_error",
     "bad_body", "request_error"}

\* The outcomes with which requests.post or the reading of the response failed
CallFailures == Outcomes \ {"ok", "unparseable"}

\* chat with a handler for timeouts only
retriable_timeout_only(outcome) == outcome = "timeout"

\* llm_client.py:65, 88, 94  the failures chat has a retry branch for
retriable(outcome) == outcome \in {"http_error", "timeout", "connection_error"}

\* llm_client.py:71, 91, 97  time.sleep(2 ** attempt)
backoff(attempt) == 2 ^ attempt

\* extractor.py:183-205  extract_from_chunk starts and calls venus_llm.chat
BeginExtraction ==
    /\ llm.status \in {"idle", "returned"}
    /\ Len(llm.results) < MaxExtractions
    /\ llm' = [llm EXCEPT !.status = "calling", !.attempt = 0,
                          !.attempts = << >>, !.slept = << >>]
    /\ UNCHANGED <<workers, repair, cleanup, ctxlog>>
    /\ UNCHANGED storeVars
    /\ UNCHANGED callVars
    /\ UNCHANGED pipeVars
    /\ UNCHANGED progress_file

\* llm_client.py:56-99  one pass of the loop of chat, and, when chat ends in
\* this pass, the rest of extract_from_chunk (extractor.py:207-225)
chat_attempt(outcome) ==
    /\ llm.status = "calling"
    /\ llm.attempt < retry
    /\ LET tried == Append(llm.attempts, outcome)
       IN  CASE outcome = "ok" ->
                    llm' = [llm EXCEPT !.status = "returned", !.attempts = tried,
                                       !.results = Append(@, Some("result"))]
             [] outcome = "unparseable" ->
                    llm' = [llm EXCEPT !.status = "returned", !.attempts = tried,
                                       !.results = Append(@, None)]
             [] retriable(outcome) /\ llm.attempt < retry - 1 ->
                    llm' = [llm EXCEPT !.attempts = tried,
                                       !.slept = Append(@, backoff(llm.attempt)),
                                       !.attempt = @ + 1]
             [] OTHER ->
                    llm' = [llm EXCEPT !.status = "returned", !.attempts = tried,
                                       !.results = Append(@, None)]
    /\ UNCHANGED <<workers, repair, cleanup, ctxlog>>
    /\ UNCHANGED storeVars
    /\ UNCHANGED callVars
    /\ UNCHANGED pipeVars
    /\ UNCHANGED progress_file

AttemptStep == \E outcome \in Outcomes : chat_attempt(outcome)

NextLLM == BeginExtraction \/ AttemptStep

SpecLLM == Init /\ [][NextLLM]_vars

-----------------------------------------------------------------------------
(* Helpers of the properties *)

IsMergeCall == last.op = "merge_person"

\* The node the last merge_person call matched, as it was before the call
MatchedUid == last.matched[1]

MatchedBefore == before.persons[MatchedUid]

IsSpecificName(n) == n # "" /\ n \notin AMBIGUOUS_TITLES /\ Len(n) > 1

CleanAliases(node) == node.aliases \ {node.original_name, ""}

\* Stored nodes that carry the canonical name n
Holders(store, n) == {u \in DOMAIN store : store[u].original_name = n}

-----------------------------------------------------------------------------
(* C1 *)

\* C1 (as stated): for every candidate whose name set is exactly the canonical
\* name of a stored node N, merge_person returns N's uid and the number of
\* Person nodes is unchanged.
C1_Original ==
    IsMergeCall =>
        \A u \in DOMAIN before.persons :
            all_names(last.arg) = {before.persons[u].original_name}
                => /\ last.ret = u
                   /\ Cardinality(DOMAIN persons) = Cardinality(DOMAIN before.persons)

\* C1 (amended): when the canonical name n of N is not a blacklisted title and
\* is longer than one character, a candidate whose name set is exactly {n}
\* resolves to a stored node M with canonical name n (M = N when N is the only
\* such node); if M holds at most 25 aliases other than n and the empty string,
\* merge_person returns M's uid and the number of Person nodes is unchanged,
\* otherwise the pollution guard returns the candidate's own uid.
C1_IdempotentIdentity ==
    IsMergeCall =>
        \A u \in DOMAIN before.persons :
            LET n == before.persons[u].original_name
            IN  (all_names(last.arg) = {n} /\ IsSpecificName(n))
                    => \E m \in Holders(before.persons, n) :
                          /\ (Holders(before.persons, n) = {u} => m = u)
                          /\ IF Cardinality(CleanAliases(before.persons[m])) <= MaxAliases
                             THEN /\ last.ret = m
                                  /\ DOMAIN persons = DOMAIN before.persons
                             ELSE last.ret = last.arg.uid

\* C1 witness: a candidate with another uid whose only name is the canonical
\* name of a stored node was resolved into that node.
C1_Witness ==
    /\ IsMergeCall
    /\ last.path = "merge"
    /\ all_names(last.arg) = {MatchedBefore.original_name}
    /\ last.arg.uid # last.ret
    /\ last.ret = MatchedUid
    /\ DOMAIN persons = DOMAIN before.persons

-----------------------------------------------------------------------------
(* C2 *)

\* The two candidates have exactly one name in common and it is a blacklisted
\* ambiguous title
SharesOnlyTitle(c1, c2) ==
    \E t \in AMBIGUOUS_TITLES : all_names(c1) \cap all_names(c2) = {t}

\* C2: two candidates that have only a blacklisted title in common, resolved
\* one after the other, get two different ids, leave two distinct Person
\* nodes, and the second call does not modify the node of the first.
C2_DistinctNodes ==
    [][ ( /\ last.op = "merge_person"
          /\ last'.op = "merge_person"
          /\ SharesOnlyTitle(last.arg, last'.arg) )
        => /\ last'.ret # last.ret
           /\ {last.ret, last'.ret} \subseteq DOMAIN persons'
           /\ persons'[last.ret] = persons[last.ret] ]_vars

-----------------------------------------------------------------------------
(* C3 *)

\* C3: union-or-abort: a merge_person call that finds a matching node sets
\* the node's alias set to (existing aliases \cup candidate names) minus the
\* canonical name and the empty string when that set has at most 25 elements,
\* and leaves the node's alias set as it was when it has more.
C3_UnionOrAbort ==
    (IsMergeCall /\ last.matched # None) =>
        LET proposed == (MatchedBefore.aliases \cup all_names(last.arg))
                            \ {MatchedBefore.original_name, ""}
        IN  IF Cardinality(proposed) <= 25
            THEN persons[MatchedUid].aliases = proposed
            ELSE persons[MatchedUid].aliases = MatchedBefore.aliases

-----------------------------------------------------------------------------
(* C4 *)

\* C4: when the pollution guard trips, the matched node is left unchanged,
\* exactly one brand-new Person node is added, and the returned id is that
\* new node's id, different from the matched node's id.
C4_GuardCreatesNewNode ==
    (IsMergeCall /\ last.path = "guard") =>
        /\ persons[MatchedUid] = MatchedBefore
        /\ last.ret \notin DOMAIN before.persons
        /\ DOMAIN persons = DOMAIN before.persons \cup {last.ret}
        /\ last.ret # MatchedUid

-----------------------------------------------------------------------------
(* C6 *)

\* C6: no stored Person node's alias set contains the empty string or the
\* node's own canonical name.
C6_AliasesClean ==
    \A u \in DOMAIN persons :
        /\ "" \notin persons[u].aliases
        /\ persons[u].original_name \notin persons[u].aliases

-----------------------------------------------------------------------------
(* C7 *)

\* C7: every stored Person node has at most 25 aliases.
C7_AliasCeiling ==
    \A u \in DOMAIN persons : Cardinality(persons[u].aliases) <= 25

-----------------------------------------------------------------------------
(* C8 *)

\* C8: no Person node is ever removed and no node's canonical name ever
\* changes; a candidate with only the (specific) name n followed by a candidate
\* with name n and other names A (at most 25) ends with a single node that
\* keeps the first id and has alias set A.
C8_StableNodes ==
    [][ /\ \A u \in DOMAIN persons :
              /\ u \in DOMAIN persons'
              /\ persons'[u].original_name = persons[u].original_name
        /\ ( /\ last.op = "merge_person"
             /\ before.persons = << >>
             /\ last.arg.aliases = {}
             /\ IsSpecificName(last.arg.original_name)
             /\ last'.arg.original_name = last.arg.original_name
             /\ last'.arg.aliases \cap {last.arg.original_name, ""} = {}
             /\ Cardinality(last'.arg.aliases) <= 25 )
           => /\ DOMAIN persons' = {last.ret}
              /\ last'.ret = last.ret
              /\ persons'[last.ret].aliases = last'.arg.aliases ]_vars

-----------------------------------------------------------------------------
(* C5 *)

\* A scalar field holds a populated value
PopulatedYear(v) == Truthy(v)

PopulatedCause(v) == TruthyStr(v)

PopulatedRole(v) == v # "" /\ v # DefaultRole

\* C5: once a Person node's birth_year, death_year, death_cause or role holds
\* a populated value, no later merge_person call changes that value.
C5_ScalarsMonotonic ==
    [][ \A u \in DOMAIN persons :
          /\ u \in DOMAIN persons'
          /\ PopulatedYear(persons[u].birth_year)
                => persons'[u].birth_year = persons[u].birth_year
          /\ PopulatedYear(persons[u].death_year)
                => persons'[u].death_year = persons[u].death_year
          /\ PopulatedCause(persons[u].death_cause)
                => persons'[u].death_cause = persons[u].death_cause
          /\ PopulatedRole(persons[u].role)
                => persons'[u].role = persons[u].role ]_vars

-----------------------------------------------------------------------------
(* C10 *)

IsRelationCall == last.op = "create_relation_by_name"

\* The name resolves to no stored node
Unresolved(store, name) ==
    /\ name = "" \/ PersonsNamed(store.persons, name) = {}
    /\ \A label \in OtherLabels : name = "" \/ OthersNamed(store.others, label, name) = {}

\* C10: if the source name or the target name of a relation resolves to no
\* stored node, create_relation_by_name returns false and the store is
\* unchanged: no edge and no node is created.
C10_UnresolvedEndpoint ==
    ( /\ IsRelationCall
      /\ \/ Unresolved(before, last.arg.source)
         \/ Unresolved(before, last.arg.target) )
    => /\ last.ret = FALSE
       /\ Snapshot = before

\* C10 witness: a relation whose source is stored and whose target was never
\* resolved has been submitted.
C10_Witness ==
    /\ IsRelationCall
    /\ ~Unresolved(before, last.arg.source)
    /\ last.arg.target # ""
    /\ Unresolved(before, last.arg.target)
    /\ last.ret = FALSE
    /\ Snapshot = before

-----------------------------------------------------------------------------
(* C9 *)

\* Every unit id of the run's unit sequence is in the checkpoint file the run
\* started from
FullyProcessedAtStart ==
    /\ run.file_at_start.state = "ok"
    /\ \A i \in 1..Len(run.corpus) : run.corpus[i] \in run.file_at_start.ids

\* The run extracted nothing, wrote nothing and kept the processed set
RunWasNoop ==
    /\ run.extracted = {}
    /\ run.written = {}
    /\ Snapshot = run.store_at_start
    /\ progress_file = run.file_at_start
    /\ processed_chunks = run.file_at_start.ids

-----------------------------------------------------------------------------
(* C11 *)

\* The stored node with key k carries the name
Carries(store, k, name) ==
    IF k[1] = "Person"
    THEN k[2] \in PersonsNamed(store.persons, name)
    ELSE k \in DOMAIN store.others /\ store.others[k].name = name

\* The stored edges of the relation's type between a node carrying its source
\* name and a node carrying its target name
EdgesFor(store, relation) ==
    {k \in DOMAIN store.edges :
        /\ k[3] = SanitizeRelType(relation.relation_type)
        /\ Carries(store, k[1], relation.source)
        /\ Carries(store, k[2], relation.target)}

\* C11: when a successful create_relation_by_name call is followed by a call
\* with the same source name, target name and relation type, the second call
\* creates no additional edge, the store holds exactly one edge for that
\* (source, target, type), and the edge's properties are those of the second
\* call.
C11_RelationMergeIdempotent ==
    [][ ( /\ last.op = "create_relation_by_name"
          /\ last.ret = TRUE
          /\ last'.op = "create_relation_by_name"
          /\ ncalls' = ncalls + 1
          /\ last'.arg.source = last.arg.source
          /\ last'.arg.target = last.arg.target
          /\ last'.arg.relation_type = last.arg.relation_type )
        => /\ DOMAIN edges' = DOMAIN edges
           /\ Cardinality(EdgesFor(Snapshot', last'.arg)) = 1
           /\ \A k \in EdgesFor(Snapshot', last'.arg) :
                 edges'[k] = relation_properties(last'.arg) ]_vars

-----------------------------------------------------------------------------
(* C12 *)

\* The unit the loop of run is at
CurrentUnit == chunks[run.i + 1]

\* The step writes nothing to the graph store for a unit without a result
SkipsFailedUnit ==
    (pc = "extracted" /\ run.result = None /\ pc' = "written")
        => storeVars' = storeVars

\* The run has flushed a checkpoint file that lists every unit whose
\* extraction failed in it
FailedUnitsCheckpointed ==
    pc = "done" =>
        \A chunk \in run.failed :
            progress_file.state = "ok" /\ chunk \in progress_file.ids

-----------------------------------------------------------------------------
(* C13 *)

\* The unit ids the checkpoint file lists
CheckpointedIds == IF progress_file.state = "ok" THEN progress_file.ids ELSE {}

-----------------------------------------------------------------------------
(* C14 *)

\* C14: the known-persons context passed to the extraction call of a unit
\* contains every name (canonical name and aliases) of the persons written to
\* the store for the earlier units of the run.
C14_ContextIsCurrent ==
    pc = "extracted" => run.written_names \subseteq run.context

-----------------------------------------------------------------------------
(* C15 *)

\* C15: applying _write_result_to_neo4j a second time with the same
\* extraction result, from a store state reached by the first application,
\* creates no additional node and no additional edge.
C15_ReplayAddsNothing ==
    [][ ( /\ last.op = "_write_result_to_neo4j"
          /\ last'.op = "_write_result_to_neo4j"
          /\ ncalls' = ncalls + 1
          /\ last'.arg = last.arg )
        => /\ DOMAIN persons' = DOMAIN persons
           /\ DOMAIN others' = DOMAIN others
           /\ DOMAIN edges' = DOMAIN edges ]_vars

-----------------------------------------------------------------------------
(* C16 *)

\* C16: after the temporal repair pass, for every person with a known death
\* year d and every participation edge the person had to an event: when the
\* event's year is greater than d the edge is removed if the event's
\* description contains no memorial keyword and is retained if it contains
\* one; when the event's year is at most d or missing the edge is retained.
C16_PostDeathEdges ==
    repair = "done" =>
        \A u \in DOMAIN persons, e \in EventUids(others) :
            ( /\ persons[u].death_year # None
              /\ ParticipationEdge(u, e) \in DOMAIN before.edges )
            => LET d  == persons[u].death_year[1]
                   ev == others[<<"Event", e>>]
               IN  IF ev.year # None /\ ev.year[1] > d
                   THEN HasMemorialKeyword(ev.description)
                            <=> ParticipationEdge(u, e) \in DOMAIN edges
                   ELSE ParticipationEdge(u, e) \in DOMAIN edges

-----------------------------------------------------------------------------
(* C17 *)

BothDone == workers # << >> /\ \A w \in Workers : workers[w].pc = "done"

\* Both lookups ran before either write
BothLookupsFirst == \A w \in Workers : workers[w].saw = 0

\* The Person nodes the two calls have added to the store
NodesProduced == DOMAIN persons \ DOMAIN before.persons

\* No stored node matched a candidate or had its uid when the calls started,
\* and the candidates have different uids
PreviouslyUnseen ==
    /\ \A w \in Workers :
          /\ find_person_by_any_name(before.persons,
                                     all_names(workers[w].person)) = {}
          /\ workers[w].person.uid \notin DOMAIN before.persons
    /\ workers[1].person.uid # workers[2].person.uid

\* C17 (as stated): two merge_person calls for candidates that share a
\* non-blacklisted name and have different uids produce two Person nodes only
\* if both lookups ran before either write; run one after the other they
\* produce exactly one Person node and the second call returns the id created
\* by the first.
C17_Original ==
    ( /\ BothDone
      /\ PreviouslyUnseen
      /\ (all_names(workers[1].person) \cap all_names(workers[2].person))
            \ AMBIGUOUS_TITLES # {} )
    => /\ Cardinality(NodesProduced) = 2 => BothLookupsFirst
       /\ \A first \in Workers, second \in Workers :
             (workers[first].saw = 0 /\ workers[second].saw = 1)
             => /\ NodesProduced = {workers[first].person.uid}
                /\ workers[second].ret = workers[first].person.uid

\* The pollution guard trips when the second candidate is merged into the
\* node created from the first
GuardWouldTrip(first, second) ==
    Cardinality((first.aliases \cup all_names(second))
                    \ {first.original_name, ""}) > MaxAliases

\* C17 (amended): the same for candidates that share a name which is not a
\* blacklisted title and is longer than one character; run one after the
\* other they produce exactly one Person node and the second call returns the
\* id created by the first, unless the names of the two candidates other than
\* the first's canonical name are more than 25, in which case the pollution
\* guard gives the second candidate a node of its own; two nodes are produced
\* only if both lookups ran before either write or the guard tripped.
C17_OneNodeWhenSequential ==
    ( /\ BothDone
      /\ PreviouslyUnseen
      /\ _filter_ambiguous_names(all_names(workers[1].person)
                                    \cap all_names(workers[2].person)) # {} )
    => /\ Cardinality(NodesProduced) = 2
            => \/ BothLookupsFirst
               \/ \E w \in Workers : workers[w].path = "guard"
       /\ \A first \in Workers, second \in Workers :
             (workers[first].saw = 0 /\ workers[second].saw = 1)
             => IF GuardWouldTrip(workers[first].person, workers[second].person)
                THEN /\ workers[second].path = "guard"
                     /\ NodesProduced = {workers[first].person.uid,
                                         workers[second].person.uid}
                     /\ workers[second].ret = workers[second].person.uid
                ELSE /\ NodesProduced = {workers[first].person.uid}
                     /\ workers[second].ret = workers[first].person.uid

\* C17 witness: the second call looked up after the first had written, found
\* the node of the first and merged into it.
C17_Witness ==
    /\ BothDone
    /\ PreviouslyUnseen
    /\ workers[1].saw = 0 /\ workers[2].saw = 1
    /\ workers[2].path = "merge"
    /\ workers[2].ret = workers[1].person.uid
    /\ NodesProduced = {workers[1].person.uid}
    /\ workers[2].person.aliases \ {""} # {}

(***************************************************************************)
(* C18  Checkpoint file failures                                           *)
(***************************************************************************)

\* Nothing was extracted or written in the run since the recorded failure
NothingSinceFailure ==
    /\ run.at_failure # None
    /\ run.extracted = run.at_failure[1].extracted
    /\ run.written = run.at_failure[1].written

C20_CheckpointMatchesStore ==
    pc \in {"done", "aborted", "crashed"} => CheckpointedIds \subseteq hist.applied

(***************************************************************************)
(* C19  Retries of the extraction call                                     *)
(***************************************************************************)

\* The attempts of the current call that failed
FailedAttempts == {k \in 1..Len(llm.attempts) : llm.attempts[k] \in CallFailures}

\* The failed attempt k (1-based) was followed by a wait of 2^(k-1) seconds
\* and another attempt, or is the attempt being waited for
WaitedAfter(k) == Len(llm.slept) >= k /\ llm.slept[k] = 2 ^ (k - 1)

\* The call has ended in a failure and extract_from_chunk returned None
EndedInFailure ==
    /\ llm.status = "returned"
    /\ llm.attempts # << >>
    /\ llm.attempts[Len(llm.attempts)] \in CallFailures

\* The extraction calls that returned None do not stop the ones after them
FailureIsNotFatal ==
    /\ EndedInFailure => llm.results[Len(llm.results)] = None
    /\ llm.status = "returned" /\ Len(llm.results) < MaxExtractions
            => ENABLED BeginExtraction

\* C19 as stated: at most 3 invocations for one extraction call; every failed
\* attempt but the third, whatever the failure, is followed by a wait of 2^k
\* seconds and a retry; the call that fails for the last time returns None and
\* the next extraction can start.
C19_Original ==
    /\ Len(llm.attempts) <= 3
    /\ \A k \in FailedAttempts : k < 3 => WaitedAfter(k)
    /\ FailureIsNotFatal

\* C19 (amended): at most 3 invocations for one extraction call; a failed
\* attempt but the third is followed by a wait of 2^k seconds and a retry when
\* the failure is a non-200 response, a timeout or a connection error, and
\* ends the call without a wait when it is any other failure; the call that
\* fails for the last time returns None and the next extraction can start.
C19_RetriesTransientFailures ==
    /\ Len(llm.attempts) <= 3
    /\ \A k \in FailedAttempts :
          IF llm.attempts[k] \in {"http_error", "timeout", "connection_error"}
          THEN k < 3 => WaitedAfter(k)
          ELSE k = Len(llm.attempts) /\ Len(llm.slept) = k - 1
                    /\ llm.status = "returned"
    /\ FailureIsNotFatal

\* A call whose three attempts failed with retried failures: it waited 1 and
\* 2 seconds and returned None, and the call before it had failed too
C19_Witness ==
    /\ EndedInFailure
    /\ Len(llm.attempts) = 3
    /\ llm.slept = <<1, 2>>
    /\ llm.results = <<None, None>>

(***************************************************************************)
(* C21  Canonical names before aliases                                     *)
(***************************************************************************)

\* The names of the last candidate that take part in matching
CandidateSpecificNames ==
    {n \in all_names(last.arg) : IsSpecificName(n)}

\* The nodes stored before the call whose canonical name the candidate has
CanonicalHits ==
    {u \in DOMAIN before.persons :
        before.persons[u].original_name \in CandidateSpecificNames}

\* The nodes stored before the call that the candidate meets in an alias only
AliasOnlyHits ==
    {u \in DOMAIN before.persons :
        /\ before.persons[u].aliases \cap CandidateSpecificNames # {}
        /\ before.persons[u].original_name \notin CandidateSpecificNames}

\* C21: when the filtered names of the candidate hold the canonical name of a
\* stored node, the lookup of merge_person returns a node with such a
\* canonical name (the only one, when there is one), never a node matched in
\* an alias only.
C21_CanonicalMatchFirst ==
    IsMergeCall /\ CanonicalHits # {}
        => last.matched # None /\ MatchedUid \in CanonicalHits

\* A lookup that had a canonical match N1 and an alias-only match N2
C21_Witness ==
    /\ IsMergeCall
    /\ Cardinality(CanonicalHits) = 1
    /\ AliasOnlyHits # {}
    /\ last.matched # None
    /\ MatchedUid \in CanonicalHits

(***************************************************************************)
(* C22  Persons of a unit are written before its relations are resolved    *)
(***************************************************************************)

IsUnitWrite == last.op = "_write_result_to_neo4j"

\* The positions of the persons of the last unit that carry the name
PersonsOfUnitNamed(name) ==
    {i \in 1..Len(last.arg.persons) : name \in all_names(last.arg.persons[i])}

\* No node stored before the unit carried the name
FirstAppears(name) == PersonsNamed(before.persons, name) = {}

\* The name is carried by no node at all after the persons of the unit were
\* written
NotWritten(name) == resolve_node_uid(persons, others, name) = {}

\* C22: after a unit is written, a relation whose two endpoints name persons
\* that first appear in this unit has returned true and its edge joins the
\* nodes merge_person returned for those persons; a relation with an endpoint
\* that names nothing written has returned false.
C22_SameUnitPersonsResolve ==
    IsUnitWrite =>
        \A j \in 1..Len(last.arg.relations) :
            LET relation == last.arg.relations[j]
            IN  /\ \A i \in PersonsOfUnitNamed(relation.source),
                      k \in PersonsOfUnitNamed(relation.target) :
                        FirstAppears(relation.source) /\ FirstAppears(relation.target)
                            => /\ last.ret.rets[j]
                               /\ << <<"Person", last.ret.uids[i]>>,
                                     <<"Person", last.ret.uids[k]>>,
                                     SanitizeRelType(relation.relation_type) >>
                                        \in DOMAIN edges
                /\ NotWritten(relation.source) \/ NotWritten(relation.target)
                        => ~last.ret.rets[j]

(***************************************************************************)
(* C23  The order of the relations of a unit                               *)
(***************************************************************************)

\* Every endpoint of the relations of the last unit named a stored node
\* before the unit
EndpointsExisted ==
    \A j \in 1..Len(last.arg.relations) :
        /\ resolve_node_uid(before.persons, before.others,
                            last.arg.relations[j].source) # {}
        /\ resolve_node_uid(before.persons, before.others,
                            last.arg.relations[j].target) # {}

\* The relations of the last unit in the order pi
Reordered(pi) ==
    [j \in 1..Len(last.arg.relations) |-> last.arg.relations[pi[j]]]

\* The sets of edges that processing the relations in the order pi may
\* leave, from the edges stored before the unit
EdgeSets(pi) ==
    { DOMAIN o.edges :
        o \in create_relations(persons, others, before.edges, Reordered(pi)) }

\* C23: when a unit that brings relations only has been written and every
\* endpoint named a stored node, the set of edges in the store is one that
\* every other order of the unit's relations produces as well.
C23_RelationOrderIrrelevant ==
    IsUnitWrite /\ last.arg.events = << >> /\ last.arg.persons = << >>
                /\ EndpointsExisted
        => \A pi \in Permutations(1..Len(last.arg.relations)) :
                DOMAIN edges \in EdgeSets(pi)

\* A unit with three relations over stored persons was written and added edges
C23_Witness ==
    /\ IsUnitWrite
    /\ last.arg.persons = << >>
    /\ Len(last.arg.relations) = 3
    /\ EndpointsExisted
    /\ Cardinality(DOMAIN edges \ DOMAIN before.edges) = 3

(***************************************************************************)
(* C24  The lookup order of resolve_node_uid                               *)
(***************************************************************************)

\* The ids a lookup of the name in the store may return when the types are
\* consulted in the order Person, Dynasty, Event, Place and the first type
\* with a match wins
FirstTypeWithMatch(store, name) ==
    LET byType == << PersonsNamed(store.persons, name),
                     OthersNamed(store.others, "Dynasty", name),
                     OthersNamed(store.others, "Event", name),
                     OthersNamed(store.others, "Place", name) >>
        hits == {t \in 1..4 : byType[t] # {}}
    IN  IF name = "" \/ hits = {} THEN {}
        ELSE byType[CHOOSE t \in hits : \A other \in hits : t <= other]

\* The lookup of the name returned what the lookup order prescribes
ResolvedInOrder(name, resolved) ==
    IF FirstTypeWithMatch(before, name) = {} THEN resolved = None
    ELSE resolved # None /\ resolved[1] \in FirstTypeWithMatch(before, name)

\* C24: the two lookups of a create_relation_by_name call returned the id of
\* a Person carrying the name if there is one, otherwise of a Dynasty with
\* the name, otherwise of an Event, otherwise of a Place, otherwise nothing;
\* the empty name resolved to nothing.
C24_LookupOrder ==
    IsRelationCall
        => /\ ResolvedInOrder(last.arg.source, last.matched.source)
           /\ ResolvedInOrder(last.arg.target, last.matched.target)

\* A name carried by a Person and by a Dynasty resolved to the Person, and,
\* in the same call, a name carried by no node resolved to nothing
C24_Witness ==
    /\ IsRelationCall
    /\ PersonsNamed(before.persons, last.arg.source) # {}
    /\ OthersNamed(before.others, "Dynasty", last.arg.source) # {}
    /\ last.matched.source # None
    /\ last.matched.source[1] \in PersonsNamed(before.persons, last.arg.source)
    /\ last.arg.target # ""
    /\ last.matched.target = None

(***************************************************************************)
(* C25  The edge label                                                     *)
(***************************************************************************)

\* Letters, digits and the underscore, of the alphabet used here
IdentifierChars ==
    {"a", "b", "k", "A", "B", "K", "R", "E", "L", "T", "D", "O", "Han",
     "1", "2", "_"}

RELATED_TO == <<"R", "E", "L", "A", "T", "E", "D", "_", "T", "O">>

\* The last call resolved both endpoints and went on to build a label
UsedLabel == IsRelationCall /\ last.path # None

\* C25: the label a create_relation_by_name call uses is non-empty and made
\* of letters, digits and underscores only, and it is RELATED_TO when the
\* relation type has no character at all; every stored edge has such a label.
C25_LabelIsIdentifier ==
    /\ UsedLabel
          => /\ last.path[1] # << >>
             /\ \A i \in 1..Len(last.path[1]) : last.path[1][i] \in IdentifierChars
             /\ last.arg.relation_type = << >> => last.path[1] = RELATED_TO
    /\ \A k \in DOMAIN edges :
          k[3] # << >> /\ \A i \in 1..Len(k[3]) : k[3][i] \in IdentifierChars

\* A call with a type made of a punctuation mark and a Chinese character
\* created an edge
C25_Witness ==
    /\ UsedLabel
    /\ last.arg.relation_type = <<"!", "Han">>
    /\ last.ret = TRUE
    /\ DOMAIN edges # DOMAIN before.edges

(***************************************************************************)
(* C26  The description kept by a merge                                    *)
(***************************************************************************)

IsMerge == IsMergeCall /\ last.path = "merge"

\* The description of the matched node after the call
MergedDescription == persons[MatchedUid].description

\* C26: after a merge the description of the node is the existing one or the
\* candidate's, is at least as long as both, and is the existing one when
\* the two have the same length.
C26_LongerDescription ==
    IsMerge
        => /\ MergedDescription \in {MatchedBefore.description,
                                      last.arg.description}
           /\ Len(MergedDescription) >= Len(MatchedBefore.description)
           /\ Len(MergedDescription) >= Len(last.arg.description)
           /\ Len(MatchedBefore.description) = Len(last.arg.description)
                 => MergedDescription = MatchedBefore.description

\* A merge of a candidate whose description differs from the stored one and
\* has the same length
C26_Witness ==
    /\ IsMerge
    /\ MatchedBefore.description # ""
    /\ last.arg.description # MatchedBefore.description
    /\ Len(last.arg.description) = Len(MatchedBefore.description)
    /\ MergedDescription = MatchedBefore.description

(***************************************************************************)
(* C27  A failed write inside a unit                                       *)
(***************************************************************************)

\* The writes of the unit that raised
FailedWritesOf(chunk) == {fw[2] : fw \in {x \in run.failed_writes : x[1] = chunk}}

\* The node and relation writes of a result (the participant links of an
\* event belong to the write of the event)
EntityAndRelationWrites(result) == {w \in AllWrites(result) : w[1] # "link"}

\* The units of the run that the loop has passed
PassedUnits == {chunks[n] : n \in 1..run.i}

\* C27: when a write of a unit has raised, every other node and relation
\* write of the unit has been attempted; a unit with a failed write that the
\* loop has passed is in the processed set; and a run is never aborted by
\* anything but a failed write of its files.
C27_WriteFailureIsLocal ==
    /\ pc = "written" /\ run.result # None
          => EntityAndRelationWrites(run.result[1]) \ FailedWritesOf(CurrentUnit)
                \subseteq run.attempted
    /\ pc \in {"loop", "extracted", "written", "marked", "done", "aborted"}
          => \A chunk \in PassedUnits :
                FailedWritesOf(chunk) # {} => chunk \in processed_chunks
    /\ pc = "aborted" => run.io_failed # "none"

\* The first write of a unit with three writes raised, the other two were
\* attempted, the unit was recorded and the next unit has been extracted
C27_Witness ==
    /\ pc = "extracted"
    /\ run.i >= 1
    /\ \E w \in FailedWritesOf(chunks[run.i]) : w[1] = "dynasty"
    /\ chunks[run.i] \in processed_chunks
    /\ <<"person_a", "ZhuWen">> \in
            {<<u, persons[u].original_name>> : u \in DOMAIN persons}
    /\ \A k \in DOMAIN others : k[1] # "Dynasty"

(***************************************************************************)
(* C28  The known-persons context after a checkpoint                       *)
(***************************************************************************)

\* C28: the extraction call for the unit that follows every 10th processed
\* unit of a run is given the names of the persons that are in the store at
\* that moment.
C28_RefreshAfterCheckpoint ==
    (pc = "extracted" /\ run.i > 0 /\ run.i % SaveEvery = 0)
        => run.context = ContextNames(get_all_person_names(persons))

(***************************************************************************)
(* C29  The units a run(start_from, max_chunks) goes through               *)
(***************************************************************************)

\* 0-based position of a unit in the loaded sequence
PositionOf(c, all) == (CHOOSE j \in 1..Len(all) : all[j] = c) - 1

\* The first m (all when m is None) elements of a sequence
FirstUnits(seq, m) ==
    IF m # None /\ m[1] < Len(seq) THEN SubSeq(seq, 1, m[1]) ELSE seq

\* The units at positions >= k of the loaded sequence that, with resume, are
\* not in the processed set, in sequence order
Eligible(r) ==
    LET Wanted(c) == /\ PositionOf(c, r.corpus) >= r.start_from
                     /\ (r.resume => c \notin r.processed_at_start)
    IN  SelectSeq(r.corpus, Wanted)

\* C29: the units of run(start_from = k, max_chunks = m) are at positions
\* >= k of the loaded sequence, at most m, with resume none of them is in the
\* processed set, and they are the first not yet processed units at positions
\* >= k, in sequence order.
C29_UnitsOfARun ==
    pc \in {"loop", "extracted", "written", "marked"} =>
        /\ \A j \in 1..Len(chunks) :
                PositionOf(chunks[j], run.corpus) >= run.start_from
        /\ (run.max_chunks # None => Len(chunks) <= run.max_chunks[1])
        /\ (run.resume =>
                \A j \in 1..Len(chunks) : chunks[j] \notin run.processed_at_start)
        /\ chunks = FirstUnits(Eligible(run), run.max_chunks)

\* The part of C29 about positions, the limit and the processed set
C29_PositionsLimitAndResume ==
    pc \in {"loop", "extracted", "written", "marked"} =>
        /\ \A j \in 1..Len(chunks) :
                PositionOf(chunks[j], run.corpus) >= run.start_from
        /\ (run.max_chunks # None => Len(chunks) <= run.max_chunks[1])
        /\ (run.resume =>
                \A j \in 1..Len(chunks) : chunks[j] \notin run.processed_at_start)

(***************************************************************************)
(* C30  The alias cleanup only removes aliases                             *)
(***************************************************************************)

\* The persons the pass has handled so far
Handled == DOMAIN cleanup.answers

\* The oracle failed for the person or named no incorrect alias
NothingWrong(uid) ==
    \/ cleanup.answers[uid] = None
    \/ cleanup.answers[uid][1].wrong_aliases = {}

\* C30: after the alias cleanup pass has handled a person, the stored aliases
\* are among the aliases stored before the pass, and a person for whom the
\* oracle failed or named no incorrect alias is stored as before.
C30_CleanupOnlyRemoves ==
    \A uid \in Handled :
        /\ persons[uid].aliases \subseteq cleanup.rows[uid].aliases
        /\ (NothingWrong(uid) =>
                persons[uid].aliases = cleanup.rows[uid].aliases)

\* The second half of C30 alone
C30_UntouchedWithoutWrongAlias ==
    \A uid \in Handled :
        NothingWrong(uid) => persons[uid].aliases = cleanup.rows[uid].aliases

(***************************************************************************)
(* C31  Whom the alias cleanup leaves alone                                *)
(***************************************************************************)

\* The persons stored with at least min_aliases aliases when the pass began
AtThreshold ==
    { u \in DOMAIN cleanup.persons_at_start :
        Cardinality(cleanup.persons_at_start[u].aliases) >= cleanup.min_aliases }

\* The uids repaired by hand and the uids of the saved phase1_done list
Excluded == ALREADY_FIXED_UIDS \cup cleanup.done_at_start

\* The persons the pass must leave alone
LeftAlone ==
    (DOMAIN cleanup.persons_at_start \ AtThreshold)
        \cup (IF cleanup.skip_fixed THEN Excluded ELSE {})

\* C31: without the full flag the alias cleanup asks the oracle about no
\* person that is excluded or below the threshold and stores such a person
\* as it was; with the full flag a finished pass has asked the oracle about
\* every person at or above the threshold, excluded or not.
C31_ExclusionAndFull ==
    cleanup.pos # "idle" =>
        /\ \A u \in LeftAlone \cap DOMAIN cleanup.persons_at_start :
                /\ u \notin Handled
                /\ persons[u] = cleanup.persons_at_start[u]
        /\ (cleanup.pos = "done" /\ ~cleanup.skip_fixed => Handled = AtThreshold)

\* A finished pass without the full flag that skipped a person of the saved
\* list and a person repaired by hand, both at the threshold, and handled a
\* third one
C31_Witness ==
    /\ cleanup.pos = "done"
    /\ cleanup.skip_fixed
    /\ cleanup.done_at_start = {"person_a"}
    /\ {"person_a", "person_c"} \subseteq AtThreshold
    /\ Handled = {"person_b"}

\* A finished pass with the full flag that asked about an excluded person
C31_WitnessFull ==
    /\ cleanup.pos = "done"
    /\ ~cleanup.skip_fixed
    /\ cleanup.done_at_start = {"person_a"}
    /\ {"person_a", "person_c"} \subseteq Handled

(***************************************************************************)
(* C32  A repair pass called twice in a row                                *)
(***************************************************************************)

C32_WitnessRelations ==
    /\ repair = "twice"
    /\ \E u \in DOMAIN persons, e \in EventUids(others) :
          /\ ParticipationEdge(u, e) \in DOMAIN edges
          /\ persons[u].death_year # None
          /\ others[<<"Event", e>>].year # None
          /\ others[<<"Event", e>>].year[1] > persons[u].death_year[1]

(***************************************************************************)
(* C33  No participation after death once the repair has finished          *)
(***************************************************************************)

\* The person died before the year of the event
AfterDeath(u, e) ==
    /\ persons[u].death_year # None
    /\ others[<<"Event", e>>].year # None
    /\ others[<<"Event", e>>].year[1] > persons[u].death_year[1]

\* C33: when the repair of the event relations has finished, every
\* participation edge from a person to an event of a year after the person's
\* death year leads to an event whose description has a memorial keyword,
\* the edges the repair itself has added included.
C33_NoEdgeAfterDeath ==
    repair = "done" =>
        \A u \in DOMAIN persons, e \in EventUids(others) :
            (ParticipationEdge(u, e) \in DOMAIN edges /\ AfterDeath(u, e))
                => HasMemorialKeyword(others[<<"Event", e>>].description)

\* C33 for the edges the repair has added only
C33_NoAddedEdgeAfterDeath ==
    repair = "done" =>
        \A u \in DOMAIN persons, e \in EventUids(others) :
            ( /\ ParticipationEdge(u, e) \in DOMAIN edges
              /\ ParticipationEdge(u, e) \notin DOMAIN before.edges
              /\ AfterDeath(u, e) )
                => HasMemorialKeyword(others[<<"Event", e>>].description)

(***************************************************************************)
(* C34  The saved extraction results                                       *)
(***************************************************************************)

\* The units whose result extraction_results.json holds
SavedResults == IF results_file.state = "ok" THEN results_file.ids ELSE {}

\* C34: after a run has completed, extraction_results.json holds the result
\* of every unit of the processed set whose extraction succeeded, the units
\* of earlier runs included.
C34_SnapshotHoldsAllResults ==
    (pc = "done" /\ run.corpus # << >>)
        => (processed_chunks \cap hist.succeeded) \subseteq SavedResults

\* C34 for the units of the run that has just completed
C34_SnapshotHoldsResultsOfRun ==
    (pc = "done" /\ run.corpus # << >>)
        => (run.written \cap hist.succeeded) \subseteq SavedResults

(***************************************************************************)
(* C35  How far progress.json lags behind the processed set                *)
(***************************************************************************)

\* The processed units that progress.json does not list
Unflushed == processed_chunks \ CheckpointedIds

\* The run is inside its loop
InLoop == pc \in {"loop", "extracted", "written", "marked"}

UniqueSpecificNames(ps) ==
    \A u, v \in DOMAIN ps :
        ( /\ u # v
          /\ ps[u].original_name = ps[v].original_name )
        => \/ ps[u].original_name \in AMBIGUOUS_TITLES
           \/ Len(ps[u].original_name) <= 1

\* C36 (as stated): after any sequence of merge_person calls no two Person
\* nodes have the same canonical name when the name is not a blacklisted
\* title and is longer than one character.
C36_Original == UniqueSpecificNames(persons)

\* C36 (amended): a merge_person call that does not end in the pollution
\* guard keeps the canonical names that are not blacklisted titles and are
\* longer than one character unique among the Person nodes.
C36_UniqueUnlessGuard ==
    (IsMergeCall /\ last.path # "guard" /\ UniqueSpecificNames(before.persons))
        => UniqueSpecificNames(persons)

\* A call for a candidate whose canonical name a node of another uid holds
\* has merged into that node
C36_Witness ==
    /\ IsMergeCall
    /\ last.path = "merge"
    /\ last.arg.uid # last.ret
    /\ last.arg.original_name = persons[last.ret].original_name
    /\ last.arg.uid \notin DOMAIN persons
    /\ UniqueSpecificNames(persons)

(***************************************************************************)
(* C37  The node merge_person returns is the node the name resolves to     *)
(***************************************************************************)

\* The names node u of the store is known by
NamesOfNode(u) == {persons[u].original_name} \cup persons[u].aliases

\* After merge_person has returned, the returned node exists and holds every
\* non-empty name of the candidate
ReturnedNodeHoldsNames ==
    IsMergeCall =>
        /\ last.ret \in DOMAIN persons
        /\ all_names(last.arg) \subseteq NamesOfNode(last.ret)

\* C37: immediately after merge_person(c) has returned u, node u exists,
\* every non-empty name of c is the canonical name or an alias of u, and
\* resolve_person_uid(c.original_name) returns u and no other node.
C37_ResolvesToReturnedNode ==
    /\ ReturnedNodeHoldsNames
    /\ (IsMergeCall =>
            resolve_person_uid(persons, last.arg.original_name) = {last.ret})

\* C37 for candidates whose canonical name is neither a blacklisted title nor
\* a single character, after calls that did not end in the pollution guard
C37_SpecificNameNoGuard ==
    ( /\ IsMergeCall
      /\ last.path # "guard"
      /\ _filter_ambiguous_names({last.arg.original_name}) # {} )
        => resolve_person_uid(persons, last.arg.original_name) = {last.ret}

\* The returned node is among the nodes the name may resolve to
C37_ReturnedNodeIsACandidate ==
    IsMergeCall =>
        last.ret \in resolve_person_uid(persons, last.arg.original_name)

(***************************************************************************)
(* C38  The checkpoint file never loses an id without the clear option     *)
(***************************************************************************)

\* a step that writes progress.json in a history in which no run has used
\* the clear option
FlushWithoutClear ==
    /\ ~hist.cleared
    /\ pc \in {"marked", "loop"}
    /\ progress_file' # progress_file
    /\ progress_file'.state = "ok"

\* C38: across successive runs that do not use the clear option, whatever the
\* resume flag and whether or not the process was restarted in between, every
\* flush writes a superset of the ids progress.json held before it.
C38_FlushNeverLosesAnId ==
    [][FlushWithoutClear => progress_file.ids \subseteq progress_file'.ids]_vars

\* C38 for the flushes of runs with resume enabled
C38_ResumedFlushKeepsIds ==
    [][(FlushWithoutClear /\ run.resume)
          => progress_file.ids \subseteq progress_file'.ids]_vars

\* C38 for the flushes of a process that has read or written every id the
\* file holds
C38_FlushKeepsIdsInMemory ==
    [][(FlushWithoutClear /\ progress_file.ids \subseteq processed_chunks)
          => progress_file.ids \subseteq progress_file'.ids]_vars

\* a run without resume in a new process finds ids in progress.json that
\* the process does not hold
C38_FreshRunOverOldFile ==
    /\ ~hist.cleared
    /\ ~run.resume
    /\ pc = "loop"
    /\ ~(progress_file.ids \subseteq processed_chunks)

(***************************************************************************)
(* C39  The known-persons cache is reused for at most 20 calls             *)
(***************************************************************************)

\* C39: the known-persons cache is answered from for at most 20 consecutive
\* calls of _build_existing_context, so the 21st call after a load at the
\* latest attempts a reload; a reload that fails returns an empty context and
\* leaves an empty cache instead of raising.
C39_CacheReusedAtMostLimit ==
    /\ ctxlog.reuses <= CacheLimit
    /\ ctxlog.call = "failed" =>
           /\ ctxlog.context = {}
           /\ extractor.cache = Some({})

\* The call after 20 consecutive reuses loaded the cache from a store that
\* holds a person
C39_Witness ==
    /\ ctxlog.call = "load"
    /\ ctxlog.reuses_before = CacheLimit
    /\ ctxlog.context # {}

\* The call after 20 consecutive reuses failed to load the cache
C39_WitnessFailed ==
    /\ ctxlog.call = "failed"
    /\ ctxlog.reuses_before = CacheLimit

====
